---- MODULE Spec2Model ----
(***************************************************************************)
(* Lumina firmware: the state manager (LuminaStateManager.h), its four     *)
(* states (SearchingState.h, ConnectedState.h with ProvisioningState,      *)
(* UpdatingState.h) and the EEPROM credential store.                       *)
(*                                                                         *)
(* Conventions of the model                                                *)
(*  - Strings and datagrams are sequences of bytes (0..255).               *)
(*  - A timestamp field (stateStartTime, lastHeartbeat, ...) holds its age *)
(*    millis() - field, capped just above the threshold it is compared     *)
(*    with; time advances between ticks by an environment-chosen step.     *)
(*  - Heap objects (states, lighting strategies) live in numbered slots;   *)
(*    a slot holding NoObj / NoStrat is free.                              *)
(*  - trace is the sequence of observable events of the last operation.    *)
(***************************************************************************)
EXTENDS Integers, Sequences, FiniteSets, TLC

VARIABLES
    booted,         \* begin() has returned since the last restart
    currentState,   \* LuminaStateManager::currentState (0 = nullptr)
    objs,           \* heap of LuminaState objects, by slot
    strats,         \* heap of LightingStrategy objects, by slot
    ledBrightness,  \* leds.setBrightness value
    frame,          \* what the LED ring shows after the last leds.show()
    wifiMode,       \* WiFi.mode(): "OFF", "STA", "AP"
    otaArmed,       \* ArduinoOTA.begin() done and not ended
    now,            \* millis() since restart, capped
    eeprom,         \* [ram, flash, dirty]: EEPROM buffer, flash sector, dirty flag
    telemetry,      \* battery and heap bookkeeping of the manager
    trace,          \* events of the last operation
    cleared         \* SpecStore: clearCredentials() ran and no saveCredentials() returned true since

vars == <<booted, currentState, objs, strats, ledBrightness, frame, wifiMode,
          otaArmed, now, eeprom, telemetry, trace, cleared>>

\* An operator that refers to its machine argument more than once binds it first:
\* (CHOOSE r_ \in {e : m \in {m_}} : TRUE) is e for m = m_, and m_ is evaluated
\* once however often e refers to m.

----------------------------------------------------------------------------
(* Config.h                                                                *)

LED_COUNT == 16
HEARTBEAT_INTERVAL == 5000
WIFI_TIMEOUT == 30000
PROVISION_TIMEOUT == 300000
EEPROM_MAGIC == 165
ADDR_MAGIC == 0
ADDR_SSID_LEN == 1
ADDR_SSID == 2
ADDR_PASS_LEN == 34
ADDR_PASS == 35
PULSE_SPEED == 50
FADE_SPEED == 20
BRIGHTNESS_MAX == 200
CMD_SET_COLOR == 1
CMD_SET_MOOD == 2
CMD_SET_BRIGHTNESS == 3
CMD_GET_STATUS == 4
CMD_PROVISION == 5
CMD_OTA_START == 6
CMD_RESET == 255
STATUS_HEARTBEAT == 16
STATUS_STATE == 19

(* States.h                                                                *)
STATE_SEARCHING == 1
STATE_PROVISIONING == 2
STATE_CONNECTED == 3
STATE_UPDATING == 4

(* Limits written as literals in the source                                *)
MAX_SSID == 32
MAX_PASS == 64

Fill(n, b) == [i \in 1..n |-> b]

----------------------------------------------------------------------------
(* Events                                                                  *)

Ev(e, o, a, d) == [ev |-> e, obj |-> o, arg |-> a, data |-> d]
NoEvent == Ev("none", 0, 0, <<>>)
B2N(b) == IF b THEN 1 ELSE 0

----------------------------------------------------------------------------
(* EEPROM (the ESP8266 EEPROM object: a RAM buffer over one flash sector)  *)

Addr == 0..(ADDR_PASS + MAX_PASS - 1)

ErasedFlash == [a \in Addr |-> 255]
StaleFlash == [a \in Addr |-> EEPROM_MAGIC]

\* EEPROM.begin(size): the buffer is read from flash
EEPROMbegin(flash) == [ram |-> flash, flash |-> flash, dirty |-> FALSE]

\* EEPROM.read(addr)
EEPROMread(ee, addr) == ee.ram[addr]

\* EEPROM.write(addr, val): the buffer changes, and is dirty if the value differs
EEPROMwrite(ee, addr, val) ==
    [ram |-> [ee.ram EXCEPT ![addr] = val],
     flash |-> ee.flash,
     dirty |-> ee.dirty \/ ee.ram[addr] # val]

\* EEPROM.commit(): flushes a dirty buffer; ok is whether the flash write succeeds
EEPROMcommit(ee, ok) ==
    IF ~ee.dirty THEN [ee |-> ee, ret |-> TRUE]
    ELSE IF ok THEN [ee |-> [ram |-> ee.ram, flash |-> ee.ram, dirty |-> FALSE],
                     ret |-> TRUE]
    ELSE [ee |-> ee, ret |-> FALSE]

\* EEPROM.write applied for each address of the write set w (address -> value)
ApplyWrites(ee, w) ==
    [ram |-> [a \in DOMAIN ee.ram |-> IF a \in DOMAIN w THEN w[a] ELSE ee.ram[a]],
     flash |-> ee.flash,
     dirty |-> ee.dirty \/ \E a \in DOMAIN w : ee.ram[a] # w[a]]

\* The EEPROM.write calls of saveCredentials: each address is written once
SaveWrites(ssid, password) ==
    [a \in {ADDR_MAGIC, ADDR_SSID_LEN, ADDR_PASS_LEN}
            \cup (ADDR_SSID..(ADDR_SSID + Len(ssid) - 1))
            \cup (ADDR_PASS..(ADDR_PASS + Len(password) - 1)) |->
        IF a = ADDR_MAGIC THEN EEPROM_MAGIC
        ELSE IF a = ADDR_SSID_LEN THEN Len(ssid)
        ELSE IF a = ADDR_PASS_LEN THEN Len(password)
        ELSE IF a < ADDR_PASS_LEN THEN ssid[a - ADDR_SSID + 1]
        ELSE password[a - ADDR_PASS + 1]]

\* saveCredentials that writes the magic byte before it checks the lengths
saveCredentialsWriteFirst(ee, ssid, password, ok) ==
    LET c == EEPROMcommit(ApplyWrites(ee, SaveWrites(ssid, password)), ok)
    IN  IF Len(ssid) > MAX_SSID \/ Len(password) > MAX_PASS
        THEN [ee |-> EEPROMwrite(ee, ADDR_MAGIC, EEPROM_MAGIC), ret |-> FALSE]
        ELSE [ee |-> c.ee, ret |-> c.ret]

\* saveCredentials that never writes the password length byte
saveCredentialsNoPassLen(ee, ssid, password, ok) ==
    LET ws == SaveWrites(ssid, password)
        kept == [a \in DOMAIN ws \ {ADDR_PASS_LEN} |-> ws[a]]
        c == EEPROMcommit(ApplyWrites(ee, kept), ok)
    IN  IF Len(ssid) > MAX_SSID \/ Len(password) > MAX_PASS
        THEN [ee |-> ee, ret |-> FALSE]
        ELSE [ee |-> c.ee, ret |-> c.ret]

saveCredentials(ee, ssid, password, ok) ==
    IF Len(ssid) > MAX_SSID \/ Len(password) > MAX_PASS
    THEN [ee |-> ee, ret |-> FALSE]
    ELSE LET c == EEPROMcommit(ApplyWrites(ee, SaveWrites(ssid, password)), ok)
         IN  [ee |-> c.ee, ret |-> c.ret]

ReadBytes(ee, base, n) == [i \in 1..n |-> EEPROMread(ee, base + i - 1)]

\* loadCredentials(ssid&, password&): the out-parameters keep their old value
\* unless the code assigned them before returning
loadCredentials(ee, ssid0, password0) ==
    LET ssidLen == EEPROMread(ee, ADDR_SSID_LEN)
        passLen == EEPROMread(ee, ADDR_PASS_LEN)
    IN  IF EEPROMread(ee, ADDR_MAGIC) # EEPROM_MAGIC
        THEN [ret |-> FALSE, ssid |-> ssid0, password |-> password0]
        ELSE IF ssidLen > MAX_SSID
        THEN [ret |-> FALSE, ssid |-> ssid0, password |-> password0]
        ELSE IF passLen > MAX_PASS
        THEN [ret |-> FALSE, ssid |-> ReadBytes(ee, ADDR_SSID, ssidLen),
              password |-> password0]
        ELSE [ret |-> TRUE, ssid |-> ReadBytes(ee, ADDR_SSID, ssidLen),
              password |-> ReadBytes(ee, ADDR_PASS, passLen)]

\* clearCredentials: the commit's result is not looked at
clearCredentials(ee, ok) == EEPROMcommit(EEPROMwrite(ee, ADDR_MAGIC, 0), ok).ee

----------------------------------------------------------------------------
(* Model bounds                                                            *)

MaxObjs == 3        \* heap slots for state objects
MaxStrats == 3      \* heap slots for lighting strategies

(* Colors (Config.h, namespace Colors)                                     *)
ColorCONNECTED == <<0, 255, 0>>
ColorSEARCHING == <<0, 50, 255>>

(* Strategy names returned by getName(), as bytes                          *)
NameOf(kind) ==
    CASE kind = "Calm"  -> <<67, 97, 108, 109>>
      [] kind = "Focus" -> <<70, 111, 99, 117, 115>>
      [] kind = "Party" -> <<80, 97, 114, 116, 121>>
      [] kind = "Solid" -> <<83, 111, 108, 105, 100>>
      [] OTHER          -> <<>>

DEVICE_NAME == <<76, 117, 109, 105, 110, 97>>
FIRMWARE_VERSION == <<49, 46, 48, 46, 48>>

----------------------------------------------------------------------------
(* Heap objects                                                            *)

NoObj == [mode |-> 0]
NoStrat == [kind |-> "free"]

Cap(age, limit) == IF age > limit THEN limit ELSE age

\* smallest free slot, 0 when the heap is exhausted (operator new yields nullptr)
AllocObj(m_) ==
    (CHOOSE r_ \in {(
    IF \E i \in 1..MaxObjs : m.objs[i].mode = 0
    THEN CHOOSE i \in 1..MaxObjs :
            m.objs[i].mode = 0 /\ \A j \in 1..(i - 1) : m.objs[j].mode # 0
    ELSE 0
    ) : m \in {m_}} : TRUE)

AllocStrat(m_) ==
    (CHOOSE r_ \in {(
    IF \E i \in 1..MaxStrats : m.strats[i].kind = "free"
    THEN CHOOSE i \in 1..MaxStrats :
            m.strats[i].kind = "free" /\ \A j \in 1..(i - 1) : m.strats[j].kind # "free"
    ELSE 0
    ) : m \in {m_}} : TRUE)

Emit(m, e) == [m EXCEPT !.trace = Append(@, e)]

Alive(m, self) == self # 0 /\ m.objs[self].mode # 0

\* getStateCode() of a live state; 0 for nullptr or a released object
ModeOf(m, id) == IF id = 0 THEN 0 ELSE m.objs[id].mode

\* leds->setPixelColor...; leds->show(): the ring shows a new frame
Show(m, kind, arg) == [m EXCEPT !.frame = [kind |-> kind, arg |-> arg]]

\* new XStrategy(colors): m.ret is the new pointer
NewStrategy(m_, kind, c1, c2, c3) ==
    (CHOOSE r_ \in {(
    LET sid == AllocStrat(m)
    IN  IF sid = 0 THEN [m EXCEPT !.ret = 0]
        ELSE Emit([m EXCEPT !.strats[sid] = [kind |-> kind, c1 |-> c1, c2 |-> c2, c3 |-> c3],
                            !.ret = sid],
                  Ev("new_strategy", sid, 0, NameOf(kind)))
    ) : m \in {m_}} : TRUE)

\* delete strategy: releasing a pointer that is not live is a double free
DeleteStrategy(m_, sid) ==
    (CHOOSE r_ \in {(
    IF m.strats[sid].kind = "free"
    THEN Emit(m, Ev("double_free_strategy", sid, 0, <<>>))
    ELSE Emit([m EXCEPT !.strats[sid] = NoStrat],
              Ev("delete_strategy", sid, 0, <<>>))
    ) : m \in {m_}} : TRUE)

----------------------------------------------------------------------------
(* State constructors and factories                                        *)

\* SearchingState(mgr): timestamps start at 0, so their age is millis()
SearchingCtor(m_) ==
    (CHOOSE r_ \in {(
    [mode |-> STATE_SEARCHING, stateStartTime |-> Cap(m.now, WIFI_TIMEOUT + 1),
     lastPulseUpdate |-> Cap(m.now, PULSE_SPEED),
     lastConnectionAttempt |-> Cap(m.now, 5000),
     ssid |-> <<>>, password |-> <<>>]
    ) : m \in {m_}} : TRUE)

ProvisioningCtor(m_) ==
    (CHOOSE r_ \in {(
    [mode |-> STATE_PROVISIONING, stateStartTime |-> Cap(m.now, PROVISION_TIMEOUT + 1),
     lastBroadcast |-> Cap(m.now, 2000), lastAnimUpdate |-> Cap(m.now, 100),
     udp |-> FALSE]
    ) : m \in {m_}} : TRUE)

ConnectedCtor(m_, sid) ==
    (CHOOSE r_ \in {(
    [mode |-> STATE_CONNECTED, stateStartTime |-> 0, currentStrategy |-> sid,
     lastHeartbeat |-> Cap(m.now, HEARTBEAT_INTERVAL),
     lastStrategyUpdate |-> Cap(m.now, FADE_SPEED),
     connectionCheckTime |-> Cap(m.now, 5000), udp |-> FALSE]
    ) : m \in {m_}} : TRUE)

UpdatingCtor(m_) ==
    (CHOOSE r_ \in {(
    [mode |-> STATE_UPDATING, stateStartTime |-> Cap(m.now, 600001),
     lastPulse |-> Cap(m.now, 30), otaConfigured |-> FALSE, lastProgress |-> 0]
    ) : m \in {m_}} : TRUE)

NewState(m_, obj) ==
    (CHOOSE r_ \in {(
    LET id == AllocObj(m)
    IN  IF id = 0 THEN [m EXCEPT !.ret = 0]
        ELSE Emit([m EXCEPT !.objs[id] = obj, !.ret = id],
                  Ev("new", id, obj.mode, <<>>))
    ) : m \in {m_}} : TRUE)

createSearchingState(m_) ==
    (CHOOSE r_ \in {(NewState(m, SearchingCtor(m))) : m \in {m_}} : TRUE)
createProvisioningState(m_) ==
    (CHOOSE r_ \in {(NewState(m, ProvisioningCtor(m))) : m \in {m_}} : TRUE)
createUpdatingState(m_) ==
    (CHOOSE r_ \in {(NewState(m, UpdatingCtor(m))) : m \in {m_}} : TRUE)

\* createConnectedState whose constructor starts with a solid color instead of
\* the breathing strategy
createConnectedStateSolid(m_) ==
    (CHOOSE r_ \in {(
    LET id == AllocObj(m)
        m1 == Emit([m EXCEPT !.objs[id] = ConnectedCtor(m, 0)],
                   Ev("new", id, STATE_CONNECTED, <<>>))
        m2 == NewStrategy(m1, "Solid", ColorCONNECTED, ColorCONNECTED, ColorCONNECTED)
    IN  IF id = 0 THEN [m EXCEPT !.ret = 0]
        ELSE [m2 EXCEPT !.objs[id].currentStrategy = m2.ret, !.ret = id]
    ) : m \in {m_}} : TRUE)

\* the constructor allocates the default strategy after the state itself
createConnectedState(m_) ==
    (CHOOSE r_ \in {(
    LET id == AllocObj(m)
        m1 == Emit([m EXCEPT !.objs[id] = ConnectedCtor(m, 0)],
                   Ev("new", id, STATE_CONNECTED, <<>>))
        m2 == NewStrategy(m1, "Calm", ColorCONNECTED, ColorCONNECTED, ColorCONNECTED)
    IN  IF id = 0 THEN [m EXCEPT !.ret = 0]
        ELSE [m2 EXCEPT !.objs[id].currentStrategy = m2.ret, !.ret = id]
    ) : m \in {m_}} : TRUE)

\* ~ConnectedState / ~ProvisioningState / default destructors, then the memory is freed
DeleteState(m_, id) ==
    (CHOOSE r_ \in {(
    LET o == m.objs[id]
        m1 == IF o.mode = STATE_CONNECTED /\ o.currentStrategy # 0
              THEN DeleteStrategy(m, o.currentStrategy)
              ELSE m
    IN  Emit([m1 EXCEPT !.objs[id] = NoObj], Ev("delete", id, o.mode, <<>>))
    ) : m \in {m_}} : TRUE)

----------------------------------------------------------------------------
(* Manager services used by the states                                     *)

\* manager->saveCredentials(ssid, password): m.ret is the result (1 = true)
MgrSave(m_, ssid, password, ok) ==
    (CHOOSE r_ \in {(
    LET r == saveCredentials(m.eeprom, ssid, password, ok)
    IN  Emit([m EXCEPT !.eeprom = r.ee, !.ret = B2N(r.ret)],
             Ev("save", 0, B2N(r.ret), <<ssid, password>>))
    ) : m \in {m_}} : TRUE)

\* manager->clearCredentials()
MgrClear(m_, ok) ==
    (CHOOSE r_ \in {(
    Emit([m EXCEPT !.eeprom = clearCredentials(m.eeprom, ok)],
         Ev("clear", 0, 0, <<>>))
    ) : m \in {m_}} : TRUE)

\* manager->reboot(): blanks the ring and restarts; nothing after it runs
reboot(m) ==
    [Emit(Show(m, "clear", 0), Ev("reboot", 0, 0, <<>>)) EXCEPT !.halt = "reboot"]

\* handleCommand(buffer[0], &buffer[1], len - 1) is called on state self
Dispatch(m, self, pkt) == Emit(m, Ev("command", self, pkt[1], Tail(pkt)))

\* udp.beginPacket / write / endPacket from state self
SendPacket(m_, self, kind, bytes) ==
    (CHOOSE r_ \in {(Emit(m, Ev(kind, self, m.currentState, bytes))) : m \in {m_}} : TRUE)

----------------------------------------------------------------------------
(* onExit                                                                  *)

SearchingOnExit(m, self) ==
    Show(Emit(m, Ev("onExit", self, STATE_SEARCHING, <<>>)), "clear", 0)

\* udp.stop(); WiFi.softAPdisconnect(true); leds cleared
ProvisioningOnExit(m, self) ==
    Show([Emit(m, Ev("onExit", self, STATE_PROVISIONING, <<>>))
            EXCEPT !.objs[self].udp = FALSE, !.wifiMode = "OFF"],
         "clear", 0)

\* ConnectedOnExit that puts the brightness back to BRIGHTNESS_MAX
ConnectedOnExitResetsBrightness(m, self) ==
    Show([Emit(m, Ev("onExit", self, STATE_CONNECTED, <<>>))
            EXCEPT !.objs[self].udp = FALSE, !.ledBrightness = BRIGHTNESS_MAX],
         "clear", 0)

ConnectedOnExit(m, self) ==
    Show([Emit(m, Ev("onExit", self, STATE_CONNECTED, <<>>))
            EXCEPT !.objs[self].udp = FALSE],
         "clear", 0)

\* UpdatingOnExit that leaves the OTA session running
UpdatingOnExitNoEnd(m, self) ==
    Show(Emit(m, Ev("onExit", self, STATE_UPDATING, <<>>)), "clear", 0)

\* ArduinoOTA.end(); otaConfigured = false; leds cleared
UpdatingOnExit(m, self) ==
    Show([Emit(m, Ev("onExit", self, STATE_UPDATING, <<>>))
            EXCEPT !.otaArmed = FALSE, !.objs[self].otaConfigured = FALSE],
         "clear", 0)

onExit(m_, self) ==
    (CHOOSE r_ \in {(
    CASE m.objs[self].mode = STATE_SEARCHING    -> SearchingOnExit(m, self)
      [] m.objs[self].mode = STATE_PROVISIONING -> ProvisioningOnExit(m, self)
      [] m.objs[self].mode = STATE_CONNECTED    -> ConnectedOnExit(m, self)
      [] m.objs[self].mode = STATE_UPDATING     -> UpdatingOnExit(m, self)
      [] OTHER -> m
    ) : m \in {m_}} : TRUE)

----------------------------------------------------------------------------
(* transitionTo and onEnter (mutually recursive: an onEnter may request a  *)
(* transition, which the manager runs at once, inside the running one)     *)

RECURSIVE transitionTo(_, _)

\* manager->transitionTo(createXState(manager)): the target is what the factory returned
transitionToNew(c_) ==
    (CHOOSE r_ \in {(transitionTo(c, c.ret)) : c \in {c_}} : TRUE)

\* SearchingOnEnter that starts the connection whether or not credentials were loaded
SearchingOnEnterNoFallback(m_, self) ==
    (CHOOSE r_ \in {(
    LET o == m.objs[self]
        l == loadCredentials(m.eeprom, o.ssid, o.password)
        m1 == Emit(Emit([m EXCEPT !.objs[self].stateStartTime = 0,
                                  !.objs[self].ssid = l.ssid,
                                  !.objs[self].password = l.password],
                        Ev("onEnter", self, STATE_SEARCHING, <<>>)),
                   Ev("load", self, B2N(l.ret), <<l.ssid, l.password>>))
    IN  Emit([m1 EXCEPT !.wifiMode = "STA",
                        !.objs[self].lastPulseUpdate = 0,
                        !.objs[self].lastConnectionAttempt = 0],
             Ev("wifi_begin", self, 0, <<l.ssid, l.password>>))
    ) : m \in {m_}} : TRUE)

\* SearchingState::onEnter
SearchingOnEnter(m_, self) ==
    (CHOOSE r_ \in {(
    LET o == m.objs[self]
        l == loadCredentials(m.eeprom, o.ssid, o.password)
        m1 == Emit(Emit([m EXCEPT !.objs[self].stateStartTime = 0,
                                  !.objs[self].ssid = l.ssid,
                                  !.objs[self].password = l.password],
                        Ev("onEnter", self, STATE_SEARCHING, <<>>)),
                   Ev("load", self, B2N(l.ret), <<l.ssid, l.password>>))
    IN  IF ~l.ret THEN transitionToNew(createProvisioningState(m1))
        ELSE Emit([m1 EXCEPT !.wifiMode = "STA",
                             !.objs[self].lastPulseUpdate = 0,
                             !.objs[self].lastConnectionAttempt = 0],
                  Ev("wifi_begin", self, 0, <<l.ssid, l.password>>))
    ) : m \in {m_}} : TRUE)

\* ProvisioningState::onEnter: lastBroadcast = 0 is the absolute time 0
ProvisioningOnEnter(m_, self) ==
    (CHOOSE r_ \in {(
    Emit([m EXCEPT !.objs[self].stateStartTime = 0,
                   !.linkUp = FALSE, !.wifiMode = "AP",
                   !.objs[self].udp = TRUE,
                   !.objs[self].lastAnimUpdate = 0,
                   !.objs[self].lastBroadcast = Cap(m.now, 2000)],
         Ev("onEnter", self, STATE_PROVISIONING, <<>>))
    ) : m \in {m_}} : TRUE)

\* ConnectedState::onEnter: lastHeartbeat = 0 is the absolute time 0
ConnectedOnEnter(m_, self) ==
    (CHOOSE r_ \in {(
    Show(Emit(Emit([m EXCEPT !.objs[self].stateStartTime = 0,
                             !.objs[self].udp = TRUE,
                             !.objs[self].lastHeartbeat = Cap(m.now, HEARTBEAT_INTERVAL),
                             !.objs[self].lastStrategyUpdate = 0,
                             !.objs[self].connectionCheckTime = 0],
                   Ev("onEnter", self, STATE_CONNECTED, <<>>)),
              Ev("flash_green", self, 0, <<>>)),
         "green", LED_COUNT)
    ) : m \in {m_}} : TRUE)

\* UpdatingState::setupOTA
setupOTA(m_, self) ==
    (CHOOSE r_ \in {(
    IF m.objs[self].otaConfigured THEN m
    ELSE Emit([m EXCEPT !.otaArmed = TRUE, !.objs[self].otaConfigured = TRUE],
              Ev("ota_begin", self, 0, <<>>))
    ) : m \in {m_}} : TRUE)

\* onEnter that sets up OTA before it looks at the link
UpdatingOnEnterArmFirst(m_, self) ==
    (CHOOSE r_ \in {(
    LET m1 == setupOTA(Emit([m EXCEPT !.objs[self].stateStartTime = 0],
                            Ev("onEnter", self, STATE_UPDATING, <<>>)), self)
    IN  IF ~m.linkUp THEN transitionToNew(createSearchingState(m1))
        ELSE [m1 EXCEPT !.objs[self].lastPulse = 0, !.objs[self].lastProgress = 0]
    ) : m \in {m_}} : TRUE)

\* UpdatingState::onEnter
UpdatingOnEnter(m_, self) ==
    (CHOOSE r_ \in {(
    LET m1 == Emit([m EXCEPT !.objs[self].stateStartTime = 0],
                   Ev("onEnter", self, STATE_UPDATING, <<>>))
    IN  IF ~m.linkUp THEN transitionToNew(createSearchingState(m1))
        ELSE [setupOTA(m1, self) EXCEPT !.objs[self].lastPulse = 0,
                                        !.objs[self].lastProgress = 0]
    ) : m \in {m_}} : TRUE)

onEnter(m_, self) ==
    (CHOOSE r_ \in {(
    CASE m.objs[self].mode = STATE_SEARCHING    -> SearchingOnEnter(m, self)
      [] m.objs[self].mode = STATE_PROVISIONING -> ProvisioningOnEnter(m, self)
      [] m.objs[self].mode = STATE_CONNECTED    -> ConnectedOnEnter(m, self)
      [] m.objs[self].mode = STATE_UPDATING     -> UpdatingOnEnter(m, self)
      [] OTHER -> m
    ) : m \in {m_}} : TRUE)

\* transitionTo that releases the old state without running its onExit
transitionToNoExit(m_, newState) ==
    (CHOOSE r_ \in {(
    IF m.halt # "run" THEN m
    ELSE IF newState = 0 THEN Emit(m, Ev("error_null_state", 0, 0, <<>>))
    ELSE LET old == m.currentState
             m1 == Emit(m, Ev("transition_begin", newState, old, <<>>))
             m2 == IF old # 0 THEN DeleteState(m1, old) ELSE m1
             m3 == Emit([m2 EXCEPT !.currentState = newState],
                        Ev("install", newState, m2.objs[newState].mode, <<>>))
             m4 == onEnter(m3, newState)
         IN  Emit(m4, Ev("transition_end", newState, m4.currentState, <<ModeOf(m4, m4.currentState)>>))
    ) : m \in {m_}} : TRUE)

\* transitionTo that releases the old state and forgets to install the new one
transitionToNoInstall(m_, newState) ==
    (CHOOSE r_ \in {(
    IF m.halt # "run" THEN m
    ELSE IF newState = 0 THEN Emit(m, Ev("error_null_state", 0, 0, <<>>))
    ELSE LET old == m.currentState
             m1 == Emit(m, Ev("transition_begin", newState, old, <<>>))
             m2 == IF old # 0 THEN DeleteState(onExit(m1, old), old) ELSE m1
         IN  IF old # 0 THEN Emit(m2, Ev("transition_end", newState, m2.currentState, <<0>>))
             ELSE LET m3 == Emit([m2 EXCEPT !.currentState = newState],
                                 Ev("install", newState, m2.objs[newState].mode, <<>>))
                      m4 == onEnter(m3, newState)
                  IN  Emit(m4, Ev("transition_end", newState, m4.currentState, <<ModeOf(m4, m4.currentState)>>))
    ) : m \in {m_}} : TRUE)

\* transitionTo that treats a null target like any other and drops the current state
transitionToAcceptNull(m_, newState) ==
    (CHOOSE r_ \in {(
    IF m.halt # "run" THEN m
    ELSE LET old == m.currentState
             m1 == Emit(m, Ev("transition_begin", newState, old, <<>>))
             m2 == IF old # 0 THEN DeleteState(onExit(m1, old), old) ELSE m1
             m3 == Emit([m2 EXCEPT !.currentState = newState],
                        Ev("install", newState, 0, <<>>))
             m4 == IF newState = 0 THEN m3 ELSE onEnter(m3, newState)
         IN  Emit(m4, Ev("transition_end", newState, m4.currentState, <<ModeOf(m4, m4.currentState)>>))
    ) : m \in {m_}} : TRUE)

\* transitionTo, "Exit current state": onExit, then delete
\* Variant of the exit step that runs onExit but does not delete the state.
ExitCurrentLeak(m_, old) ==
    (CHOOSE r_ \in {(IF old # 0 THEN onExit(m, old) ELSE m) : m \in {m_}} : TRUE)

ExitCurrent(m_, old) ==
    (CHOOSE r_ \in {(IF old # 0 THEN DeleteState(onExit(m, old), old) ELSE m) : m \in {m_}} : TRUE)

\* transitionTo, "Enter a new state": currentState = newState
Install(m_, newState) ==
    (CHOOSE r_ \in {(
    Emit([m EXCEPT !.currentState = newState],
         Ev("install", newState, m.objs[newState].mode, <<>>))
    ) : m \in {m_}} : TRUE)

\* transitionTo returns (the free-heap debug line)
EndTransition(m_, newState) ==
    (CHOOSE r_ \in {(
    Emit(m, Ev("transition_end", newState, m.currentState, <<ModeOf(m, m.currentState)>>))
    ) : m \in {m_}} : TRUE)

\* LuminaStateManager::transitionTo
transitionTo(m_, newState) ==
    (CHOOSE r_ \in {(
    IF m.halt # "run" THEN m
    ELSE IF newState = 0 THEN Emit(m, Ev("error_null_state", 0, 0, <<>>))
    ELSE EndTransition(
            onEnter(Install(ExitCurrent(Emit(m, Ev("transition_begin", newState,
                                                   m.currentState, <<>>)),
                                        m.currentState),
                            newState),
                    newState),
            newState)
    ) : m \in {m_}} : TRUE)

----------------------------------------------------------------------------
(* Telemetry (voltages in millivolts)                                      *)

BATTERY_FULL == 4200
BATTERY_EMPTY == 3000

\* readBatteryVoltage: the static readings[4] ring and its average;
\* (R1 + R2) / R2 = 4.3, ADC full scale 1023
readBatteryVoltage(t, rawADC) ==
    LET batteryVoltage == (rawADC * 4300) \div 1023
        readings == [t.readings EXCEPT ![t.index + 1] = batteryVoltage]
        sum == readings[1] + readings[2] + readings[3] + readings[4]
    IN  [t EXCEPT !.readings = readings, !.index = (t.index + 1) % 4,
                  !.lastBatteryVoltage = sum \div 4]

voltageToPercent(voltage) ==
    IF voltage >= BATTERY_FULL THEN 100
    ELSE IF voltage <= BATTERY_EMPTY THEN 0
    ELSE ((voltage - BATTERY_EMPTY) * 100) \div (BATTERY_FULL - BATTERY_EMPTY)

ResampleBattery(t, rawADC) ==
    LET t1 == readBatteryVoltage(t, rawADC)
    IN  [t1 EXCEPT !.lastBatteryRead = 0,
                   !.lastBatteryPercent = voltageToPercent(t1.lastBatteryVoltage)]

\* the state of the manager's statics and telemetry fields after a restart
TelemetryReset ==
    [lastBatteryRead |-> 0, lastBatteryVoltage |-> 0, lastBatteryPercent |-> 0,
     readings |-> <<0, 0, 0, 0>>, index |-> 0,
     heapInit |-> FALSE, lastHeap |-> 0, lastHeapCheck |-> 0]

\* update(): "Update battery reading every 10 seconds"
BatteryBlock(m_, in) ==
    (CHOOSE r_ \in {(
    IF m.telemetry.lastBatteryRead > 10000
    THEN [m EXCEPT !.telemetry = ResampleBattery(@, in.adc)]
    ELSE m
    ) : m \in {m_}} : TRUE)

\* a - b in uint32_t arithmetic, as the two 16-bit halves of the result
U32Sub(a, b) ==
    IF a >= b THEN [hi |-> (a - b) \div 65536, lo |-> (a - b) % 65536]
    ELSE [hi |-> 65535 - ((b - a - 1) \div 65536), lo |-> 65535 - ((b - a - 1) % 65536)]

\* x > n for a uint32 x held as halves and n below 65536
U32Gt(x, n) == x.hi > 0 \/ x.lo > n

\* update(): "Memory leak detection"; lastHeap - currentHeap is a uint32 difference
HeapBlock(m_, in) ==
    (CHOOSE r_ \in {(
    LET t0 == m.telemetry
        t == IF t0.heapInit THEN t0
             ELSE [t0 EXCEPT !.heapInit = TRUE, !.lastHeap = in.heap, !.lastHeapCheck = 0]
        lost == U32Sub(t.lastHeap, in.heap)
        m1 == [m EXCEPT !.telemetry = [t EXCEPT !.lastHeap = in.heap, !.lastHeapCheck = 0]]
    IN  IF t.lastHeapCheck > 30000
        THEN IF U32Gt(lost, 1024)
             THEN Emit(m1, Ev("memory_leak_diag", 0, 0, <<lost.hi, lost.lo>>)) ELSE m1
        ELSE [m EXCEPT !.telemetry = t]
    ) : m \in {m_}} : TRUE)

----------------------------------------------------------------------------
(* The machine as one record, and time                                     *)

Machine ==
    [booted |-> booted, currentState |-> currentState, objs |-> objs,
     strats |-> strats, ledBrightness |-> ledBrightness, frame |-> frame,
     wifiMode |-> wifiMode, otaArmed |-> otaArmed, now |-> now,
     eeprom |-> eeprom, telemetry |-> telemetry, cleared |-> cleared,
     trace |-> <<>>, ret |-> 0, halt |-> "run", usedUB |-> {}, linkUp |-> FALSE]

\* the ages of one state object after dt more milliseconds
AgeObj(o, dt) ==
    CASE o.mode = STATE_SEARCHING ->
            [o EXCEPT !.stateStartTime = Cap(@ + dt, WIFI_TIMEOUT + 1),
                      !.lastPulseUpdate = Cap(@ + dt, PULSE_SPEED),
                      !.lastConnectionAttempt = Cap(@ + dt, 5000)]
      [] o.mode = STATE_PROVISIONING ->
            [o EXCEPT !.stateStartTime = Cap(@ + dt, PROVISION_TIMEOUT + 1),
                      !.lastBroadcast = Cap(@ + dt, 2000),
                      !.lastAnimUpdate = Cap(@ + dt, 100)]
      [] o.mode = STATE_CONNECTED ->
            [o EXCEPT !.lastHeartbeat = Cap(@ + dt, HEARTBEAT_INTERVAL),
                      !.lastStrategyUpdate = Cap(@ + dt, FADE_SPEED),
                      !.connectionCheckTime = Cap(@ + dt, 5000)]
      [] o.mode = STATE_UPDATING ->
            [o EXCEPT !.stateStartTime = Cap(@ + dt, 600001),
                      !.lastPulse = Cap(@ + dt, 30)]
      [] OTHER -> o

\* millis() advances by dt; linkUp is what WiFi.status() == WL_CONNECTED yields
\* during the operation
AdvanceTime(m_, in) ==
    (CHOOSE r_ \in {(
    [m EXCEPT !.now = Cap(@ + in.dt, HEARTBEAT_INTERVAL),
              !.objs = [i \in 1..MaxObjs |-> AgeObj(m.objs[i], in.dt)],
              !.telemetry.lastBatteryRead = Cap(@ + in.dt, 10001),
              !.telemetry.lastHeapCheck =
                    IF m.telemetry.heapInit THEN Cap(@ + in.dt, 30001) ELSE @,
              !.linkUp = (m.wifiMode = "STA" /\ in.link)]
    ) : m \in {m_}} : TRUE)

\* ESP restart: RAM is lost, the flash sector stays
Restart(m_) ==
    (CHOOSE r_ \in {(
    [m EXCEPT !.booted = FALSE, !.currentState = 0,
              !.objs = [i \in 1..MaxObjs |-> NoObj],
              !.strats = [i \in 1..MaxStrats |-> NoStrat],
              !.ledBrightness = 0, !.frame = [kind |-> "clear", arg |-> 0],
              !.wifiMode = "OFF", !.linkUp = FALSE, !.otaArmed = FALSE, !.now = 0,
              !.eeprom = EEPROMbegin(m.eeprom.flash), !.telemetry = TelemetryReset]
    ) : m \in {m_}} : TRUE)

Settle(m_) ==
    (CHOOSE r_ \in {(IF m.halt # "run" THEN Restart(m) ELSE m) : m \in {m_}} : TRUE)

Commit(m) ==
    /\ booted' = m.booted
    /\ currentState' = m.currentState
    /\ objs' = m.objs
    /\ strats' = m.strats
    /\ ledBrightness' = m.ledBrightness
    /\ frame' = m.frame
    /\ wifiMode' = m.wifiMode
    /\ otaArmed' = m.otaArmed
    /\ now' = m.now
    /\ eeprom' = m.eeprom
    /\ telemetry' = m.telemetry
    /\ cleared' = m.cleared
    /\ trace' = m.trace

----------------------------------------------------------------------------
(* LuminaStateManager::begin                                               *)

begin(m_, in) ==
    (CHOOSE r_ \in {(
    LET m1 == Show([m EXCEPT !.ledBrightness = BRIGHTNESS_MAX,
                             !.eeprom = EEPROMbegin(m.eeprom.flash),
                             !.telemetry = ResampleBattery(@, in.adc)],
                   "clear", 0)
    IN  [transitionToNew(createSearchingState(Emit(m1, Ev("begin", 0, 0, <<>>))))
            EXCEPT !.booted = TRUE]
    ) : m \in {m_}} : TRUE)

----------------------------------------------------------------------------
(* Code that runs on after its own state object was deleted                *)
(* A state's update() may call transitionTo, which deletes the state, and  *)
(* then goes on. What it reads from the freed object is not defined: ub    *)
(* holds the outcomes (crash: the access faults and the chip resets;       *)
(* timedOut, due, render: what a comparison on a freed timestamp yields).  *)

UBChoices == [crash : BOOLEAN, timedOut : BOOLEAN, due : BOOLEAN, render : BOOLEAN]
UBNone == [crash |-> FALSE, timedOut |-> FALSE, due |-> FALSE, render |-> FALSE]

\* self was deleted during the operation in progress
Released(m_, self) ==
    (CHOOSE r_ \in {(
    \E i \in 1..Len(m.trace) : m.trace[i].ev = "delete" /\ m.trace[i].obj = self
    ) : m \in {m_}} : TRUE)

\* the operation consults the outcomes named in fields
Consult(m, fields) == [m EXCEPT !.usedUB = @ \cup fields]

\* an access through the freed object: it faults or goes on
DeadAccess(m_, ub) ==
    (CHOOSE r_ \in {(
    IF m.halt # "run" THEN m
    ELSE IF ub.crash
    THEN Consult([Emit(m, Ev("crash", 0, 0, <<>>)) EXCEPT !.halt = "crash"], {"crash"})
    ELSE Consult(m, {"crash"})
    ) : m \in {m_}} : TRUE)

\* a read through this (manager->...) that faults if this was deleted meanwhile
ThroughThis(m_, self, ub) ==
    (CHOOSE r_ \in {(IF Released(m, self) THEN DeadAccess(m, ub) ELSE m) : m \in {m_}} : TRUE)

\* the outcomes that differ on the consulted fields; nothing follows a fault
UBFor(used) ==
    {u \in UBChoices :
        /\ u.crash => ~u.timedOut /\ ~u.due /\ ~u.render
        /\ ~u.timedOut \/ "timedOut" \in used
        /\ ~u.due \/ "due" \in used
        /\ ~u.render \/ "render" \in used}

----------------------------------------------------------------------------
(* SearchingState                                                          *)

\* updatePulseAnimation (the pulse amplitude itself is not modelled)
updatePulseAnimation(m_, self) ==
    (CHOOSE r_ \in {(
    IF m.objs[self].lastPulseUpdate < PULSE_SPEED THEN m
    ELSE Show(Emit([m EXCEPT !.objs[self].lastPulseUpdate = 0],
                   Ev("pulse", self, 0, <<>>)),
              "searching_pulse", 0)
    ) : m \in {m_}} : TRUE)

attemptConnection(m_, self) ==
    (CHOOSE r_ \in {(
    LET m1 == Emit([m EXCEPT !.objs[self].lastConnectionAttempt = 0],
                   Ev("attempt_connection", self, B2N(m.linkUp), <<>>))
    IN  IF m.objs[self].lastConnectionAttempt < 5000 THEN m
        ELSE IF m.linkUp THEN transitionToNew(createConnectedState(m1))
        ELSE m1
    ) : m \in {m_}} : TRUE)

SearchingHandleTimeout(m, self) ==
    transitionToNew(createProvisioningState(
        Emit(m, Ev("handleTimeout", self, STATE_SEARCHING, <<>>))))

\* update(): if (hasTimedOut(WIFI_TIMEOUT)) handleTimeout()
SearchingCheckTimeout(m_, self, timedOut) ==
    (CHOOSE r_ \in {(
    IF m.halt = "run" /\ timedOut THEN SearchingHandleTimeout(m, self) ELSE m
    ) : m \in {m_}} : TRUE)

\* update() after attemptConnection: when that call deleted this state, hasTimedOut
\* reads a freed timestamp; otherwise the low-memory check follows the timeout
\* check and reaches manager->getFreeHeap() through this
SearchingAfterAttempt(m_, self, ub) ==
    (CHOOSE r_ \in {(
    IF Released(m, self)
    THEN SearchingCheckTimeout(Consult(DeadAccess(m, ub), {"timedOut"}), self, ub.timedOut)
    ELSE ThroughThis(SearchingCheckTimeout(m, self,
                                           m.objs[self].stateStartTime > WIFI_TIMEOUT),
                     self, ub)
    ) : m \in {m_}} : TRUE)

SearchingUpdate(m, self, in, ub) ==
    SearchingAfterAttempt(attemptConnection(updatePulseAnimation(m, self), self), self, ub)

----------------------------------------------------------------------------
(* ProvisioningState                                                       *)

updateOrangeAnimation(m_, self) ==
    (CHOOSE r_ \in {(
    IF m.objs[self].lastAnimUpdate < 100 THEN m
    ELSE Show(Emit([m EXCEPT !.objs[self].lastAnimUpdate = 0],
                   Ev("orange_anim", self, 0, <<>>)),
              "orange", 4)
    ) : m \in {m_}} : TRUE)

broadcastPresence(m_, self) ==
    (CHOOSE r_ \in {(
    IF m.objs[self].lastBroadcast < 2000 THEN m
    ELSE SendPacket([m EXCEPT !.objs[self].lastBroadcast = 0], self, "send_presence",
                    <<STATUS_STATE, STATE_PROVISIONING, Len(DEVICE_NAME)>> \o DEVICE_NAME)
    ) : m \in {m_}} : TRUE)

\* data[i] of the source; past the payload the read yields whatever lies there
ByteAt(data, i, beyond) == IF i < Len(data) THEN data[i + 1] ELSE beyond

\* the payload indices 0..k, in the order they are read
Upto(k) == [i \in 1..(k + 1) |-> i - 1]

Dropped(reads) == [ok |-> FALSE, ssid |-> <<>>, password |-> <<>>, reads |-> reads]

\* the Provision decoder without the test of the SSID length against the payload
ProvisionDecodeUnchecked(data, beyond) ==
    LET len == Len(data)
        ssidLen == ByteAt(data, 0, beyond)
        passLen == ByteAt(data, 1 + ssidLen, beyond)
    IN  IF len < 2 THEN Dropped(<<>>)
        ELSE IF ssidLen > MAX_SSID THEN Dropped(Upto(0))
        ELSE IF passLen > MAX_PASS \/ len < ssidLen + passLen + 2
        THEN Dropped(Upto(1 + ssidLen))
        ELSE [ok |-> TRUE,
              ssid |-> [i \in 1..ssidLen |-> ByteAt(data, i, beyond)],
              password |-> [i \in 1..passLen |-> ByteAt(data, 1 + ssidLen + i, beyond)],
              reads |-> Upto(1 + ssidLen + passLen)]

\* the Provision decoder of ProvisioningState and SearchingState: the lengths it
\* checks, the bytes it copies and the payload indices it reads
ProvisionDecode(data, beyond) ==
    LET len == Len(data)
        ssidLen == ByteAt(data, 0, beyond)
        passLen == ByteAt(data, 1 + ssidLen, beyond)
    IN  IF len < 2 THEN Dropped(<<>>)
        ELSE IF ssidLen > MAX_SSID \/ len < ssidLen + 2 THEN Dropped(Upto(0))
        ELSE IF passLen > MAX_PASS \/ len < ssidLen + passLen + 2
        THEN Dropped(Upto(1 + ssidLen))
        ELSE [ok |-> TRUE,
              ssid |-> [i \in 1..ssidLen |-> ByteAt(data, i, beyond)],
              password |-> [i \in 1..passLen |-> ByteAt(data, 1 + ssidLen + i, beyond)],
              reads |-> Upto(1 + ssidLen + passLen)]

\* the decoder's reads, noted for the payload of length Len(data)
Decoded(m, self, data, d) == Emit(m, Ev("decode", self, Len(data), d.reads))

\* handleCommand, case CMD_PROVISION, once saveCredentials has returned
\* Variant of the Provision handler's tail that acknowledges, plays the green
\* frame and reboots whatever saveCredentials() returned.
ProvisioningSavedAlways(sv_, self) ==
    (CHOOSE r_ \in {(
    reboot(Show(Emit(SendPacket(sv, self, "send_ack", <<STATUS_STATE, STATE_SEARCHING>>),
                     Ev("flash_green", self, 0, <<>>)),
                "green", LED_COUNT))
    ) : sv \in {sv_}} : TRUE)

ProvisioningSaved(sv_, self) ==
    (CHOOSE r_ \in {(
    IF sv.ret # 1 THEN sv
    ELSE reboot(Show(Emit(SendPacket(sv, self, "send_ack", <<STATUS_STATE, STATE_SEARCHING>>),
                          Ev("flash_green", self, 0, <<>>)),
                     "green", LED_COUNT))
    ) : sv \in {sv_}} : TRUE)

ProvisioningAccept(m_, self, d, in) ==
    (CHOOSE r_ \in {(
    IF ~d.ok THEN m ELSE ProvisioningSaved(MgrSave(m, d.ssid, d.password, in.ok), self)
    ) : m \in {m_}} : TRUE)

\* handleCommand, case CMD_PROVISION
ProvisioningProvision(m, self, data, in) ==
    ProvisioningAccept(Decoded(m, self, data, ProvisionDecode(data, in.beyond)), self,
                       ProvisionDecode(data, in.beyond), in)

ProvisioningHandleCommand(m_, self, cmd, data, in) ==
    (CHOOSE r_ \in {(
    CASE cmd = CMD_PROVISION -> ProvisioningProvision(m, self, data, in)
      [] cmd = CMD_GET_STATUS ->
            SendPacket(m, self, "send_status",
                       <<STATUS_STATE, STATE_PROVISIONING, m.telemetry.lastBatteryPercent,
                         Len(FIRMWARE_VERSION)>> \o FIRMWARE_VERSION)
      [] cmd = CMD_RESET ->
            reboot(SendPacket(MgrClear(m, in.ok), self, "send_ack", <<STATUS_STATE>>))
      [] OTHER -> Emit(m, Ev("unknown_command", self, cmd, <<>>))
    ) : m \in {m_}} : TRUE)

\* SearchingState::handleCommand, the Provision case once saveCredentials has returned
SearchingSaved(sv_) ==
    (CHOOSE r_ \in {(IF sv.ret # 1 THEN sv ELSE reboot(sv)) : sv \in {sv_}} : TRUE)

SearchingAccept(m_, d, in) ==
    (CHOOSE r_ \in {(
    IF ~d.ok THEN m ELSE SearchingSaved(MgrSave(m, d.ssid, d.password, in.ok))
    ) : m \in {m_}} : TRUE)

\* SearchingState::handleCommand; update() of this state never calls it
SearchingHandleCommand(m_, self, cmd, data, in) ==
    (CHOOSE r_ \in {(
    IF cmd = CMD_PROVISION /\ Len(data) >= 2
    THEN SearchingAccept(Decoded(m, self, data, ProvisionDecode(data, in.beyond)),
                         ProvisionDecode(data, in.beyond), in)
    ELSE IF cmd = CMD_RESET THEN reboot(MgrClear(m, in.ok))
    ELSE m
    ) : m \in {m_}} : TRUE)

\* Variant of handleTimeout that restarts the chip instead of going back to
\* Searching.
ProvisioningHandleTimeoutReboot(m, self) ==
    reboot(Emit(m, Ev("handleTimeout", self, STATE_PROVISIONING, <<>>)))

ProvisioningHandleTimeout(m, self) ==
    transitionToNew(createSearchingState(
        Emit(m, Ev("handleTimeout", self, STATE_PROVISIONING, <<>>))))

ProvisioningUpdate(m, self, in, ub) ==
    LET s1 == broadcastPresence(updateOrangeAnimation(m, self), self)
        s2 == IF s1.objs[self].udp /\ Len(in.pkt) > 0
              THEN ProvisioningHandleCommand(Dispatch(s1, self, in.pkt), self,
                                             in.pkt[1], Tail(in.pkt), in)
              ELSE s1
    IN  IF s2.halt = "run" /\ s2.objs[self].stateStartTime > PROVISION_TIMEOUT
        THEN ProvisioningHandleTimeout(s2, self)
        ELSE s2

----------------------------------------------------------------------------
(* ConnectedState                                                          *)

U32Bytes(n) == <<n % 256, (n \div 256) % 256, (n \div 65536) % 256, (n \div 16777216) % 256>>

\* the four bytes memcpy'd from the float voltage (kept as the millivolt value)
FloatBytes(mv) == U32Bytes(mv)

HeartbeatPacket(m_, in, name) ==
    (CHOOSE r_ \in {(
    <<STATUS_HEARTBEAT, STATE_CONNECTED, m.telemetry.lastBatteryPercent,
      (in.rssi + 128) % 256>>
    \o FloatBytes(m.telemetry.lastBatteryVoltage) \o U32Bytes(in.heap)
    \o <<Len(name)>> \o name
    ) : m \in {m_}} : TRUE)

\* sendHeartbeat on a live state; a null currentStrategy faults at getName()
sendHeartbeat(m_, self, in) ==
    (CHOOSE r_ \in {(
    LET o == m.objs[self]
        m1 == [m EXCEPT !.objs[self].lastHeartbeat = 0]
    IN  IF m.halt # "run" THEN m
        ELSE IF o.lastHeartbeat < HEARTBEAT_INTERVAL THEN m
        ELSE IF o.currentStrategy = 0
        THEN [Emit(m1, Ev("crash", self, 0, <<>>)) EXCEPT !.halt = "crash"]
        ELSE SendPacket(m1, self, "send_heartbeat",
                        HeartbeatPacket(m1, in, NameOf(m1.strats[o.currentStrategy].kind)))
    ) : m \in {m_}} : TRUE)

\* checkConnection that notes a lost link and stays Connected
checkConnectionStays(m_, self) ==
    (CHOOSE r_ \in {(
    IF m.objs[self].connectionCheckTime < 5000 THEN m
    ELSE Emit([m EXCEPT !.objs[self].connectionCheckTime = 0],
              Ev("check_connection", self, B2N(m.linkUp), <<>>))
    ) : m \in {m_}} : TRUE)

\* ConnectedState::checkConnection
checkConnection(m_, self) ==
    (CHOOSE r_ \in {(
    LET m1 == Emit([m EXCEPT !.objs[self].connectionCheckTime = 0],
                   Ev("check_connection", self, B2N(m.linkUp), <<>>))
    IN  IF m.objs[self].connectionCheckTime < 5000 THEN m
        ELSE IF ~m.linkUp THEN transitionToNew(createSearchingState(m1))
        ELSE m1
    ) : m \in {m_}} : TRUE)

\* ReplaceStrategy that installs the new strategy without deleting the old one
ReplaceStrategyKeepsOld(m_, self, kind, c1, c2, c3) ==
    (CHOOSE r_ \in {(
    LET m2 == NewStrategy(m, kind, c1, c2, c3)
    IN  [m2 EXCEPT !.objs[self].currentStrategy = m2.ret]
    ) : m \in {m_}} : TRUE)

\* if (currentStrategy) delete currentStrategy; currentStrategy = new ...
ReplaceStrategy(m_, self, kind, c1, c2, c3) ==
    (CHOOSE r_ \in {(
    LET old == m.objs[self].currentStrategy
        m1 == IF old # 0 THEN DeleteStrategy(m, old) ELSE m
        m2 == NewStrategy(m1, kind, c1, c2, c3)
    IN  [m2 EXCEPT !.objs[self].currentStrategy = m2.ret]
    ) : m \in {m_}} : TRUE)

\* ConnectedSetMood with the Calm and Focus cases swapped
ConnectedSetMoodSwapped(m_, self, data) ==
    (CHOOSE r_ \in {(
    LET len == Len(data)
        moodType == data[1]
        color == <<data[2], data[3], data[4]>>
    IN  IF len < 4 THEN m
        ELSE CASE moodType = 0 -> ReplaceStrategy(m, self, "Focus", color, color, color)
               [] moodType = 1 -> ReplaceStrategy(m, self, "Calm", color, color, color)
               [] moodType = 2 ->
                    IF len >= 10
                    THEN ReplaceStrategy(m, self, "Party", color,
                                         <<data[5], data[6], data[7]>>,
                                         <<data[8], data[9], data[10]>>)
                    ELSE ReplaceStrategy(m, self, "Party", color,
                                         ColorCONNECTED, ColorSEARCHING)
               [] OTHER -> ReplaceStrategy(m, self, "Solid", color, color, color)
    ) : m \in {m_}} : TRUE)

\* handleCommand, case CMD_SET_MOOD; data[k] of the source is data[k + 1] here
ConnectedSetMood(m_, self, data) ==
    (CHOOSE r_ \in {(
    LET len == Len(data)
        moodType == data[1]
        color == <<data[2], data[3], data[4]>>
    IN  IF len < 4 THEN m
        ELSE CASE moodType = 0 -> ReplaceStrategy(m, self, "Calm", color, color, color)
               [] moodType = 1 -> ReplaceStrategy(m, self, "Focus", color, color, color)
               [] moodType = 2 ->
                    IF len >= 10
                    THEN ReplaceStrategy(m, self, "Party", color,
                                         <<data[5], data[6], data[7]>>,
                                         <<data[8], data[9], data[10]>>)
                    ELSE ReplaceStrategy(m, self, "Party", color,
                                         ColorCONNECTED, ColorSEARCHING)
               [] OTHER -> ReplaceStrategy(m, self, "Solid", color, color, color)
    ) : m \in {m_}} : TRUE)

\* Variant of the Connected handler without the length check of set-brightness:
\* the byte behind the datagram is taken as the brightness.
ConnectedHandleCommandUnchecked(m_, self, cmd, data, in) ==
    (CHOOSE r_ \in {(
    CASE cmd = CMD_SET_COLOR ->
            IF Len(data) < 3 THEN m
            ELSE LET c == <<data[1], data[2], data[3]>>
                 IN  ReplaceStrategy(m, self, "Solid", c, c, c)
      [] cmd = CMD_SET_MOOD -> ConnectedSetMood(m, self, data)
      [] cmd = CMD_SET_BRIGHTNESS ->
            LET b == IF Len(data) < 1 THEN in.beyond ELSE data[1]
            IN  Emit([m EXCEPT !.ledBrightness = b], Ev("set_brightness", self, b, <<>>))
      [] cmd = CMD_GET_STATUS -> sendHeartbeat(m, self, in)
      [] cmd = CMD_OTA_START ->
            transitionToNew(createUpdatingState(
                Emit(m, Ev("ota_requested", self, B2N(m.linkUp), <<>>))))
      [] cmd = CMD_RESET -> reboot(MgrClear(m, in.ok))
      [] OTHER -> Emit(m, Ev("unknown_command", self, cmd, <<>>))
    ) : m \in {m_}} : TRUE)

ConnectedHandleCommand(m_, self, cmd, data, in) ==
    (CHOOSE r_ \in {(
    CASE cmd = CMD_SET_COLOR ->
            IF Len(data) < 3 THEN m
            ELSE LET c == <<data[1], data[2], data[3]>>
                 IN  ReplaceStrategy(m, self, "Solid", c, c, c)
      [] cmd = CMD_SET_MOOD -> ConnectedSetMood(m, self, data)
      [] cmd = CMD_SET_BRIGHTNESS ->
            IF Len(data) < 1 THEN m
            ELSE Emit([m EXCEPT !.ledBrightness = data[1]],
                      Ev("set_brightness", self, data[1], <<>>))
      [] cmd = CMD_GET_STATUS -> sendHeartbeat(m, self, in)
      \* the event notes whether the link is up when the request is handled
      [] cmd = CMD_OTA_START ->
            transitionToNew(createUpdatingState(
                Emit(m, Ev("ota_requested", self, B2N(m.linkUp), <<>>))))
      [] cmd = CMD_RESET -> reboot(MgrClear(m, in.ok))
      [] OTHER -> Emit(m, Ev("unknown_command", self, cmd, <<>>))
    ) : m \in {m_}} : TRUE)

\* "Update lighting strategy" block of update()
ApplyStrategy(m_, self) ==
    (CHOOSE r_ \in {(
    LET o == m.objs[self]
        m1 == [m EXCEPT !.objs[self].lastStrategyUpdate = 0]
    IN  IF m.halt # "run" \/ o.lastStrategyUpdate < FADE_SPEED THEN m
        ELSE IF o.currentStrategy = 0 THEN m1
        ELSE Show(Emit(m1, Ev("apply_strategy", self, o.currentStrategy,
                              NameOf(m1.strats[o.currentStrategy].kind))),
                  "strategy", o.currentStrategy)
    ) : m \in {m_}} : TRUE)

\* the rest of update() when checkConnection has deleted this state: the heartbeat
\* and the render read freed timestamps and the freed strategy; the stopped
\* socket yields no datagram
ConnectedUpdateDead(m, self, in, ub, o0, name0) ==
    LET d == Consult(DeadAccess(m, ub), {"due", "render"})
        hb == IF d.halt = "run" /\ ub.due
              THEN SendPacket(d, self, "send_heartbeat", HeartbeatPacket(d, in, name0))
              ELSE d
    IN  IF hb.halt = "run" /\ ub.render
        THEN Show(Emit(hb, Ev("apply_strategy", self, o0.currentStrategy, name0)),
                  "strategy", o0.currentStrategy)
        ELSE hb

\* update(): "Check for incoming UDP commands"
ConnectedReceive(m_, self, in) ==
    (CHOOSE r_ \in {(
    IF m.halt = "run" /\ m.objs[self].udp /\ Len(in.pkt) > 0
    THEN ConnectedHandleCommand(Dispatch(m, self, in.pkt), self,
                                in.pkt[1], Tail(in.pkt), in)
    ELSE m
    ) : m \in {m_}} : TRUE)

\* update() after checkConnection; o0 and name0 are the state's fields and its
\* strategy's name as they were when update() was called
ConnectedAfterCheck(m_, self, in, ub, o0, name0) ==
    (CHOOSE r_ \in {(
    IF Released(m, self) THEN ConnectedUpdateDead(m, self, in, ub, o0, name0)
    \* the battery warning reads manager through this
    ELSE ThroughThis(ConnectedReceive(ApplyStrategy(sendHeartbeat(m, self, in), self),
                                      self, in),
                     self, ub)
    ) : m \in {m_}} : TRUE)

ConnectedUpdate(m_, self, in, ub) ==
    (CHOOSE r_ \in {(
    ConnectedAfterCheck(checkConnection(m, self), self, in, ub, m.objs[self],
                        IF m.objs[self].currentStrategy = 0 THEN <<>>
                        ELSE NameOf(m.strats[m.objs[self].currentStrategy].kind))
    ) : m \in {m_}} : TRUE)

----------------------------------------------------------------------------
(* UpdatingState                                                           *)

\* showProgress(percent)
\* Variant of showProgress that redraws the bar on every callback.
showProgressAlways(m_, self, percent) ==
    (CHOOSE r_ \in {(
    Show(Emit([m EXCEPT !.objs[self].lastProgress = percent],
              Ev("progress_bar", self, percent, <<>>)),
         "progress", (percent * LED_COUNT) \div 100)
    ) : m \in {m_}} : TRUE)

showProgress(m_, self, percent) ==
    (CHOOSE r_ \in {(
    IF percent = m.objs[self].lastProgress THEN m
    ELSE Show(Emit([m EXCEPT !.objs[self].lastProgress = percent],
                   Ev("progress_bar", self, percent, <<>>)),
              "progress", (percent * LED_COUNT) \div 100)
    ) : m \in {m_}} : TRUE)

\* OtaOnError that rolls back to a fresh Searching state instead
OtaOnErrorToSearching(m, self, cause) ==
    LET m1 == Show(Emit(Emit(m, Ev("ota_error", self, cause, <<>>)),
                        Ev("flash_error", self, 3, <<>>)),
                   "clear", 0)
        c == createSearchingState(m1)
    IN  transitionTo(c, c.ret)

\* the onError lambda: three red flashes, then the rollback to Connected
OtaOnError(m, self, cause) ==
    transitionToNew(createConnectedState(
        Show(Emit(Emit(m, Ev("ota_error", self, cause, <<>>)),
                  Ev("flash_error", self, 3, <<>>)),
             "clear", 0)))

\* one callback of ArduinoOTA, cb = [kind, a, b]
OtaCallback(m_, self, cb) ==
    (CHOOSE r_ \in {(
    CASE cb.kind = "start" -> Show(Emit(m, Ev("ota_start", self, 0, <<>>)), "clear", 0)
      [] cb.kind = "progress" ->
            \* uint8_t percent = (progress * 100) / total; the product of an image
            \* offset and 100 stays below 2^32
            showProgress(m, self, ((cb.a * 100) \div cb.b) % 256)
      [] cb.kind = "end" ->
            \* the green sweep; ArduinoOTA then restarts the chip
            [Show(Emit(m, Ev("ota_end", self, 0, <<>>)), "green", LED_COUNT)
                EXCEPT !.halt = "ota_restart"]
      [] cb.kind = "error" -> OtaOnError(m, self, cb.a)
      [] OTHER -> m
    ) : m \in {m_}} : TRUE)

\* ArduinoOTA.handle(): the callbacks of this poll, in order, while the session lasts
RECURSIVE OtaHandle(_, _, _, _)
OtaHandle(m_, self, cbs, i) ==
    (CHOOSE r_ \in {(
    IF i > Len(cbs) \/ m.halt # "run" \/ ~m.otaArmed THEN m
    ELSE OtaHandle(OtaCallback(m, self, cbs[i]), self, cbs, i + 1)
    ) : m \in {m_}} : TRUE)

updateYellowPulse(m_, self) ==
    (CHOOSE r_ \in {(
    IF m.objs[self].lastPulse < 30 THEN m
    ELSE Show(Emit([m EXCEPT !.objs[self].lastPulse = 0],
                   Ev("yellow_pulse", self, 0, <<>>)),
              "yellow_pulse", LED_COUNT)
    ) : m \in {m_}} : TRUE)

UpdatingTimeout(m, self) ==
    transitionToNew(createConnectedState(Emit(m, Ev("update_timeout", self, 0, <<>>))))

\* update(): if (hasTimedOut(600000)) ...
UpdatingCheckTimeout(m_, self, timedOut) ==
    (CHOOSE r_ \in {(
    IF m.halt = "run" /\ timedOut THEN UpdatingTimeout(m, self) ELSE m
    ) : m \in {m_}} : TRUE)

\* updateYellowPulse and hasTimedOut on a live state
UpdatingPulseAlive(m_, self) ==
    (CHOOSE r_ \in {(
    IF m.halt # "run" THEN m
    ELSE UpdatingCheckTimeout(updateYellowPulse(m, self), self,
                              m.objs[self].stateStartTime > 600000)
    ) : m \in {m_}} : TRUE)

\* updateYellowPulse on a deleted state: whether the pulse is due is read from
\* a freed timestamp
UpdatingPulseDead(m_, self, ub) ==
    (CHOOSE r_ \in {(
    IF m.halt = "run" /\ ub.render
    THEN Show(Emit(m, Ev("yellow_pulse", self, 0, <<>>)), "yellow_pulse", LED_COUNT)
    ELSE m
    ) : m \in {m_}} : TRUE)

\* update() after ArduinoOTA.handle(), whose error callback may have deleted this
UpdatingAfterHandle(m_, self, ub) ==
    (CHOOSE r_ \in {(
    IF Released(m, self)
    THEN UpdatingCheckTimeout(
            UpdatingPulseDead(Consult(DeadAccess(m, ub), {"render", "timedOut"}), self, ub),
            self, ub.timedOut)
    ELSE UpdatingPulseAlive(m, self)
    ) : m \in {m_}} : TRUE)

UpdatingUpdate(m, self, in, ub) ==
    UpdatingAfterHandle(OtaHandle(m, self, in.ota, 1), self, ub)

\* LuminaStateManager::sendUDP: nothing leaves while the link is down
sendUDP(m_, self, kind, bytes) ==
    (CHOOSE r_ \in {(IF ~m.linkUp THEN m ELSE SendPacket(m, self, kind, bytes)) : m \in {m_}} : TRUE)

\* UpdatingState::handleCommand that also obeys Reset
UpdatingHandleCommandReset(m_, self, cmd, data, in) ==
    (CHOOSE r_ \in {(
    IF cmd = CMD_GET_STATUS
    THEN sendUDP(m, self, "send_status",
                 <<STATUS_STATE, STATE_UPDATING, m.objs[self].lastProgress>>)
    ELSE IF cmd = CMD_RESET THEN reboot(MgrClear(m, in.ok))
    ELSE m
    ) : m \in {m_}} : TRUE)

\* UpdatingState::handleCommand; update() of this state never calls it
UpdatingHandleCommand(m_, self, cmd, data, in) ==
    (CHOOSE r_ \in {(
    IF cmd = CMD_GET_STATUS
    THEN sendUDP(m, self, "send_status",
                 <<STATUS_STATE, STATE_UPDATING, m.objs[self].lastProgress>>)
    ELSE m
    ) : m \in {m_}} : TRUE)

----------------------------------------------------------------------------
(* LuminaStateManager::update                                              *)

StateUpdate(m_, self, in, ub) ==
    (CHOOSE r_ \in {(
    CASE m.objs[self].mode = STATE_SEARCHING    -> SearchingUpdate(m, self, in, ub)
      [] m.objs[self].mode = STATE_PROVISIONING -> ProvisioningUpdate(m, self, in, ub)
      [] m.objs[self].mode = STATE_CONNECTED    -> ConnectedUpdate(m, self, in, ub)
      [] m.objs[self].mode = STATE_UPDATING     -> UpdatingUpdate(m, self, in, ub)
      [] OTHER -> m
    ) : m \in {m_}} : TRUE)

\* update() after currentState->update(): the battery and the heap block
UpdateTelemetry(m_, in) ==
    (CHOOSE r_ \in {(
    IF m.halt # "run" THEN m ELSE HeapBlock(BatteryBlock(m, in), in)
    ) : m \in {m_}} : TRUE)

update(m_, in, ub) ==
    (CHOOSE r_ \in {(
    UpdateTelemetry(IF m.currentState # 0 THEN StateUpdate(m, m.currentState, in, ub)
                    ELSE m,
                    in)
    ) : m \in {m_}} : TRUE)

----------------------------------------------------------------------------
(* Environment inputs explored by the model                                *)

\* milliseconds between two ticks
ShortTick == 4000
LongTick == 300000
TickDeltas == {ShortTick, LongTick}

CredA == [ssid |-> <<97>>, password |-> <<112>>]

ProvisionPacket(c) ==
    <<CMD_PROVISION, Len(c.ssid)>> \o c.ssid \o <<Len(c.password)>> \o c.password

NoPacket == <<>>

ProvisionPackets ==
    {ProvisionPacket(CredA),
     <<CMD_PROVISION, 3, 97, 1>>, <<CMD_PROVISION, 1, 97, 5, 112>>, <<CMD_PROVISION>>}

LightPackets ==
    {<<CMD_SET_COLOR, 10, 20, 30>>, <<CMD_SET_COLOR, 9>>,
     <<CMD_SET_MOOD, 0, 10, 20, 30>>, <<CMD_SET_MOOD, 1, 10, 20, 30>>,
     <<CMD_SET_MOOD, 2, 10, 20, 30>>, <<CMD_SET_MOOD, 2, 10, 20, 30, 1, 2, 3, 4, 5, 6>>,
     <<CMD_SET_MOOD, 3, 10, 20, 30>>, <<CMD_SET_MOOD, 1, 10>>,
     <<CMD_SET_BRIGHTNESS, 50>>, <<CMD_SET_BRIGHTNESS>>}

ControlPackets == {<<CMD_GET_STATUS>>, <<CMD_OTA_START>>, <<CMD_RESET>>, <<9>>}

Packets == {NoPacket} \cup ProvisionPackets \cup LightPackets \cup ControlPackets

Cb(k, a, b) == [kind |-> k, a |-> a, b |-> b]

OtaErrors == 0..5

OtaInputs ==
    {<<>>, <<Cb("start", 0, 0)>>, <<Cb("progress", 1, 2)>>, <<Cb("progress", 2, 2)>>,
     <<Cb("end", 0, 0)>>, <<Cb("start", 0, 0), Cb("progress", 1, 2), Cb("error", 3, 0)>>}
    \cup {<<Cb("error", e, 0)>> : e \in OtaErrors}

AdcInputs == {900}
HeapInputs == {40000}
RssiInputs == {-60}

\* a byte lying behind a received payload
BeyondInputs == {0}

In(dt, link, pkt, ota, ok, adc, heap, rssi, beyond) ==
    [dt |-> dt, link |-> link, pkt |-> pkt, ota |-> ota, ok |-> ok,
     adc |-> adc, heap |-> heap, rssi |-> rssi, beyond |-> beyond]

\* the commit result matters to the packets that write the credential store
CommitResults(pkt) ==
    IF pkt \in {ProvisionPacket(CredA), <<CMD_RESET>>} THEN BOOLEAN ELSE {TRUE}

\* the link cannot be up while the radio is an access point
LinkInputs(mode) == IF mode = STATE_PROVISIONING THEN {FALSE} ELSE BOOLEAN

\* a datagram reaches a station over its link, an access point from its own clients;
\* one queued by the socket is still read after the link has dropped, which is
\* explored for OTA start, the command whose handling looks at the link
PacketLinks(mode, pkt) ==
    IF mode = STATE_PROVISIONING THEN {FALSE}
    ELSE IF pkt = <<CMD_OTA_START>> THEN BOOLEAN ELSE {TRUE}

\* short ticks are explored in bursts of at most BurstLimit ms after a battery
\* sample; a long tick ends the burst
BurstLimit == 8000

ShortTickAllowed == telemetry.lastBatteryRead + ShortTick <= BurstLimit

\* the inputs the active state can observe: only Provisioning and Connected hold a
\* listening socket, only Updating polls ArduinoOTA; a datagram or an OTA event
\* arrives on a short tick
TickInputs(mode) ==
    {In(dt, link, NoPacket, <<>>, TRUE, adc, heap, rssi, 0) :
        dt \in IF ShortTickAllowed THEN TickDeltas ELSE {LongTick},
        link \in LinkInputs(mode),
        adc \in AdcInputs, heap \in HeapInputs, rssi \in RssiInputs}
    \cup
    UNION {{In(ShortTick, link, pkt, <<>>, ok, adc, heap, rssi, beyond) :
               link \in PacketLinks(mode, pkt), ok \in CommitResults(pkt),
               beyond \in BeyondInputs, adc \in AdcInputs, heap \in HeapInputs, rssi \in RssiInputs} :
           pkt \in IF ShortTickAllowed /\ mode \in {STATE_PROVISIONING, STATE_CONNECTED}
                   THEN Packets \ {NoPacket} ELSE {}}
    \cup
    {In(ShortTick, link, NoPacket, ota, TRUE, adc, heap, rssi, 0) :
        link \in LinkInputs(mode),
        ota \in IF ShortTickAllowed /\ mode = STATE_UPDATING
                THEN OtaInputs \ {<<>>} ELSE {},
        adc \in AdcInputs, heap \in HeapInputs, rssi \in RssiInputs}

----------------------------------------------------------------------------
(* Specification of the device                                             *)

InitWith(flashes) ==
    /\ booted = FALSE
    /\ currentState = 0
    /\ objs = [i \in 1..MaxObjs |-> NoObj]
    /\ strats = [i \in 1..MaxStrats |-> NoStrat]
    /\ ledBrightness = 0
    /\ frame = [kind |-> "clear", arg |-> 0]
    /\ wifiMode = "OFF"
    /\ otaArmed = FALSE
    /\ now = 0
    /\ eeprom \in {EEPROMbegin(f) : f \in flashes}
    /\ telemetry = TelemetryReset
    /\ trace = <<>>
    /\ cleared = FALSE

\* a factory-fresh device
Init == InitWith({ErasedFlash})

\* setup(): stateManager.begin()
Begin ==
    /\ ~booted
    /\ \E adc \in AdcInputs :
          Commit(Settle(begin(Machine, In(0, FALSE, NoPacket, <<>>, TRUE, adc, 0, 0, 0))))

\* one update() from the state m: r0 is its result when freed memory still reads
\* as before; if it read freed memory, every outcome of those reads is a successor
TickResults(m, in, r0) ==
    IF r0.usedUB # {}
    THEN \E ub \in UBFor(r0.usedUB) : Commit(Settle(update(m, in, ub)))
    ELSE Commit(Settle(r0))

TickOutcome(m, in) == TickResults(m, in, update(m, in, UBNone))

\* loop(): stateManager.update()
Tick ==
    /\ booted
    /\ \E in \in TickInputs(objs[currentState].mode) :
          TickOutcome(AdvanceTime(Machine, in), in)

\* a caller hands transitionTo a null pointer
TransitionToAbsent ==
    /\ booted
    /\ Commit(Settle(transitionTo(Emit(Machine, Ev("call_transitionTo", 0, 0, <<>>)), 0)))

Next == Begin \/ Tick \/ TransitionToAbsent

Spec == Init /\ [][Next]_vars

----------------------------------------------------------------------------
(* Specification of the credential store alone: the manager's              *)
(* saveCredentials / loadCredentials / clearCredentials called directly    *)

SsidInputs == {<<97>>, Fill(MAX_SSID, 99), Fill(MAX_SSID + 1, 100)}
PassInputs == {<<>>, Fill(MAX_PASS, 113), Fill(MAX_PASS + 1, 114)}

StoreFrame ==
    UNCHANGED <<booted, currentState, objs, strats, ledBrightness, frame, wifiMode,
                otaArmed, now, telemetry>>

LastEvent == IF Len(trace) > 0 THEN trace[Len(trace)] ELSE NoEvent

StoreSave ==
    \E ssid \in SsidInputs, password \in PassInputs, ok \in BOOLEAN :
        LET r == saveCredentials(eeprom, ssid, password, ok)
        IN  /\ eeprom' = r.ee
            /\ trace' = <<Ev("save", 0, B2N(r.ret), <<ssid, password>>)>>
            /\ cleared' = IF r.ret THEN FALSE ELSE cleared
            /\ StoreFrame

StoreLoad ==
    LET l == loadCredentials(eeprom, <<>>, <<>>)
    IN  /\ trace' = <<Ev("load", 0, B2N(l.ret), <<l.ssid, l.password>>)>>
        /\ UNCHANGED <<eeprom, cleared>>
        /\ StoreFrame

StoreClear ==
    \E ok \in BOOLEAN :
        /\ eeprom' = clearCredentials(eeprom, ok)
        /\ trace' = <<Ev("clear", 0, 0, <<>>)>>
        /\ cleared' = TRUE
        /\ StoreFrame

\* restart: EEPROM.begin reads the buffer back from flash
StorePowerCycle ==
    /\ eeprom' = EEPROMbegin(eeprom.flash)
    /\ trace' = <<Ev("power_cycle", 0, 0, <<>>)>>
    /\ UNCHANGED cleared
    /\ StoreFrame

StoreNext == StoreSave \/ StoreLoad \/ StoreClear \/ StorePowerCycle

\* the store is constructed over an erased or an arbitrary flash sector
StoreInit == InitWith({ErasedFlash, StaleFlash})

SpecStore == StoreInit /\ [][StoreNext]_vars

----------------------------------------------------------------------------
(* Specification of the command handlers: handleCommand of the current     *)
(* state called directly, as the LuminaState interface allows, between     *)
(* ticks that move the device from one state to the next                   *)

\* LuminaState::handleCommand, dispatched on the dynamic type of the state
handleCommand(m_, self, cmd, data, in) ==
    (CHOOSE r_ \in {(
    CASE m.objs[self].mode = STATE_SEARCHING ->
            SearchingHandleCommand(m, self, cmd, data, in)
      [] m.objs[self].mode = STATE_PROVISIONING ->
            ProvisioningHandleCommand(Dispatch(m, self, <<cmd>> \o data), self, cmd, data, in)
      [] m.objs[self].mode = STATE_CONNECTED ->
            ConnectedHandleCommand(Dispatch(m, self, <<cmd>> \o data), self, cmd, data, in)
      [] m.objs[self].mode = STATE_UPDATING ->
            UpdatingHandleCommand(m, self, cmd, data, in)
      [] OTHER -> m
    ) : m \in {m_}} : TRUE)

\* the commands handed to the handlers: every datagram of the tick inputs
\* commands at the edges of the length checks, and opcodes no state knows
EdgePackets ==
    {<<CMD_SET_COLOR, 1, 2>>, <<CMD_SET_MOOD, 2, 1, 2>>, <<0>>, <<7, 1, 2, 3>>}

ApiInputs(mode) ==
    UNION {{In(0, link, pkt, <<>>, ok, adc, heap, rssi, beyond) :
               link \in LinkInputs(mode), ok \in CommitResults(pkt),
               beyond \in BeyondInputs,
               adc \in AdcInputs, heap \in HeapInputs, rssi \in RssiInputs} :
           pkt \in (Packets \ {NoPacket}) \cup EdgePackets}

\* currentState->handleCommand(cmd, data, len) called from outside update()
Handle(in) ==
    Commit(Settle(handleCommand(
        Emit(AdvanceTime(Machine, in),
             Ev("call_handleCommand", currentState, in.pkt[1], Tail(in.pkt))),
        currentState, in.pkt[1], Tail(in.pkt), in)))

HandleCommand ==
    /\ booted
    /\ currentState # 0
    /\ \E in \in ApiInputs(objs[currentState].mode) : Handle(in)

\* the ticks between the calls are long ones without datagrams
ApiTickInputs(mode) ==
    {In(LongTick, link, NoPacket, ota, TRUE, adc, heap, rssi, 0) :
        link \in LinkInputs(mode),
        ota \in IF mode = STATE_UPDATING THEN {<<>>, <<Cb("progress", 1, 2)>>} ELSE {<<>>},
        adc \in AdcInputs, heap \in HeapInputs, rssi \in RssiInputs}

ApiTick ==
    /\ booted
    /\ \E in \in ApiTickInputs(objs[currentState].mode) :
          TickOutcome(AdvanceTime(Machine, in), in)

ApiNext == Begin \/ ApiTick \/ HandleCommand

SpecApi == Init /\ [][ApiNext]_vars

----------------------------------------------------------------------------
(* Specification of the Provision decoders: handleCommand(CMD_PROVISION)   *)
(* called with every payload of a bounded set, in Provisioning (erased     *)
(* flash) and in Searching (after a payload was accepted and the device    *)
(* restarted)                                                              *)

\* longest Provision payload enumerated byte by byte
MaxPayload == 3

\* bytes of the enumerated payloads: the lengths 0 and 1, which are also content
PayloadBytes == {0, 1}

ShortPayloads == UNION {[1..n -> PayloadBytes] : n \in 0..MaxPayload}

\* short payloads that declare 20 bytes, a length within both bounds and beyond
\* the payload; payloads at the 32 and 64 byte bounds, complete and one byte short
LongPayloads ==
    {<<20>>, <<20, 0>>, <<0, 20>>, <<1, 97, 20>>,
     <<MAX_SSID>> \o Fill(MAX_SSID, 97) \o <<0>>,
     <<MAX_SSID>> \o Fill(MAX_SSID, 97),
     <<MAX_SSID + 1>> \o Fill(MAX_SSID + 1, 97) \o <<0>>,
     <<1, 97, MAX_PASS>> \o Fill(MAX_PASS, 112),
     <<1, 97, MAX_PASS>> \o Fill(MAX_PASS - 1, 112),
     <<1, 97, MAX_PASS + 1>> \o Fill(MAX_PASS + 1, 112)}

ProvisionPayloads == ShortPayloads \cup LongPayloads

\* what a read past the payload finds is left open
DecodeBeyondInputs == {0, 200}

DecodeInputs ==
    {In(0, FALSE, <<CMD_PROVISION>> \o d, <<>>, TRUE, adc, heap, rssi, beyond) :
        d \in ProvisionPayloads, beyond \in DecodeBeyondInputs,
        adc \in AdcInputs, heap \in HeapInputs, rssi \in RssiInputs}

HandleProvision ==
    /\ booted
    /\ currentState # 0
    /\ \E in \in DecodeInputs : Handle(in)

DecodeNext == Begin \/ HandleProvision

SpecDecode == Init /\ [][DecodeNext]_vars

----------------------------------------------------------------------------
(* Specification of the device on the network: datagrams are sent to it in  *)
(* every mode, and loop() keeps running                                     *)

LivePackets == {<<CMD_GET_STATUS>>, <<CMD_OTA_START>>, <<CMD_RESET>>, ProvisionPacket(CredA)}

\* a datagram reaches the device's network stack; obj is the mode at that moment
Arrive(m_, in) ==
    (CHOOSE r_ \in {(
    IF in.pkt = NoPacket THEN m
    ELSE Emit(m, Ev("datagram", ModeOf(m, m.currentState), in.pkt[1], Tail(in.pkt)))
    ) : m \in {m_}} : TRUE)

LiveInputs(mode) ==
    {In(dt, link, NoPacket, ota, TRUE, adc, heap, rssi, 0) :
        dt \in IF ShortTickAllowed THEN TickDeltas ELSE {LongTick},
        link \in LinkInputs(mode),
        ota \in IF mode = STATE_UPDATING THEN {<<>>, <<Cb("progress", 1, 2)>>} ELSE {<<>>},
        adc \in AdcInputs, heap \in HeapInputs, rssi \in RssiInputs}
    \cup
    UNION {{In(ShortTick, link, pkt, <<>>, TRUE, adc, heap, rssi, beyond) :
               link \in PacketLinks(mode, pkt), beyond \in BeyondInputs,
               adc \in AdcInputs, heap \in HeapInputs, rssi \in RssiInputs} :
           pkt \in IF ShortTickAllowed THEN LivePackets ELSE {}}

\* loop(): stateManager.update(), with what the network delivered since the last one
LiveTick ==
    /\ booted
    /\ \E in \in LiveInputs(objs[currentState].mode) :
          TickOutcome(Arrive(AdvanceTime(Machine, in), in), in)

LiveNext == Begin \/ LiveTick

\* setup() runs after every restart and loop() is called again and again
SpecLive == Init /\ [][LiveNext]_vars /\ WF_vars(Begin) /\ WF_vars(LiveTick)

----------------------------------------------------------------------------
(* Properties                                                              *)

CurrentMode == IF currentState = 0 THEN 0 ELSE objs[currentState].mode

Modes == {STATE_SEARCHING, STATE_PROVISIONING, STATE_CONNECTED, STATE_UPDATING}

\* positions of the events named e in the last operation
Events(e) == {i \in DOMAIN trace : trace[i].ev = e}

\* positions after i of the events named e about object o
After(i, e, o) == {j \in DOMAIN trace : j > i /\ trace[j].ev = e /\ trace[j].obj = o}

First(S) == CHOOSE x \in S : \A y \in S : x <= y

\* C1: once begin has returned, after every operation (begin, tick, transitionTo)
\* currentState is non-null, points at a state object that has not been released
\* and whose mode code is one of 1..4; and every transitionTo call of the last
\* operation, nested ones included, returned with such a state current.
C1_OneActiveState ==
    booted =>
        /\ currentState \in 1..MaxObjs
        /\ objs[currentState].mode \in Modes
        /\ \A i \in Events("transition_end") :
              trace[i].arg # 0 /\ trace[i].data[1] \in Modes

C1_Witness ==
    /\ booted
    /\ CurrentMode = STATE_UPDATING
    /\ Events("transition_end") # {}
    /\ Events("delete") # {}

\* C2: a transitionTo call with a null target changes neither the active state
\* nor any state object, runs no onExit and no onEnter, and reports an error.
C2_NullTargetRefused ==
    [][(Len(trace') > 0 /\ trace'[1].ev = "call_transitionTo")
        => /\ trace' = <<Ev("call_transitionTo", 0, 0, <<>>),
                         Ev("error_null_state", 0, 0, <<>>)>>
           /\ currentState' = currentState
           /\ objs' = objs
           /\ strats' = strats
           /\ wifiMode' = wifiMode
           /\ otaArmed' = otaArmed]_vars

C2_Witness ==
    /\ booted
    /\ CurrentMode = STATE_CONNECTED
    /\ Len(trace) = 2
    /\ trace[1].ev = "call_transitionTo"
    /\ trace[2].ev = "error_null_state"

\* C3: in every transitionTo with a non-null target and an active old state, the
\* old state's onExit comes before its release, the new state is installed before
\* its onEnter, and the old state's onExit comes before the new state's onEnter.
C3_HookOrder ==
    \A i \in Events("transition_begin") :
        trace[i].arg # 0 =>
            LET new == trace[i].obj
                old == trace[i].arg
                X == After(i, "onExit", old)
                D == After(i, "delete", old)
                I == After(i, "install", new)
                E == After(i, "onEnter", new)
            IN  /\ X # {} /\ D # {} /\ I # {} /\ E # {}
                /\ First(X) < First(D)
                /\ First(I) < First(E)
                /\ First(X) < First(E)

C3_Witness ==
    /\ booted
    /\ CurrentMode = STATE_CONNECTED
    /\ \E i \in Events("transition_begin") :
          /\ trace[i].arg # 0
          /\ After(i, "onExit", trace[i].arg) # {}
          /\ After(i, "onEnter", trace[i].obj) # {}

\* C4 (as the specification states it): no transitionTo starts while another one
\* is in flight, so every transition_begin finds as many transitions ended as begun.
C4_NoNestedTransition ==
    \A j \in Events("transition_begin") :
        Cardinality({i \in Events("transition_begin") : i < j})
            = Cardinality({i \in Events("transition_end") : i < j})

\* C8: when a Searching state's onEnter loads no credentials, the transitionTo that
\* entered it returns with Provisioning current, and no pulse step, no connection
\* attempt and no WiFi.begin has run from the load to that return.
C8_NoCredentialsToProvisioning ==
    \A i \in Events("load") :
        trace[i].arg = 0 =>
            LET ends == After(i, "transition_end", trace[i].obj)
            IN  /\ ends # {}
                /\ trace[First(ends)].data = <<STATE_PROVISIONING>>
                /\ \A k \in i..First(ends) :
                      trace[k].ev \notin {"pulse", "attempt_connection", "wifi_begin"}

C8_Witness ==
    /\ booted
    /\ CurrentMode = STATE_PROVISIONING
    /\ \E i \in Events("load") :
          trace[i].arg = 0 /\ After(i, "transition_end", trace[i].obj) # {}

\* the strategy class a mood type byte selects
MoodKind(t) == CASE t = 0 -> "Calm" [] t = 1 -> "Focus" [] t = 2 -> "Party" [] OTHER -> "Solid"

\* C9: a tick in which the Connected state dispatches set-mood (0x02) with at least
\* 4 payload bytes and type byte 0, 1 or 2 ends with that state still current and
\* holding a strategy of the selected class whose color is payload bytes 1..3 (and,
\* for party with 10 payload bytes, whose second and third colors are bytes 4..9);
\* the strategy held before is deleted exactly once and never freed twice.
C9_SetMoodReplacesStrategy ==
    [][\A i \in DOMAIN trace' :
          (/\ trace'[i].ev = "command"
           /\ trace'[i].arg = CMD_SET_MOOD
           /\ Len(trace'[i].data) >= 4
           /\ trace'[i].data[1] \in {0, 1, 2}
           /\ trace'[i].obj = currentState
           /\ objs[currentState].mode = STATE_CONNECTED)
          => LET d == trace'[i].data
                 old == objs[currentState].currentStrategy
                 cur == objs'[currentState'].currentStrategy
             IN  /\ currentState' = currentState
                 /\ cur # 0
                 /\ strats'[cur].kind = MoodKind(d[1])
                 /\ strats'[cur].c1 = <<d[2], d[3], d[4]>>
                 /\ (d[1] = 2 /\ Len(d) >= 10) =>
                       /\ strats'[cur].c2 = <<d[5], d[6], d[7]>>
                       /\ strats'[cur].c3 = <<d[8], d[9], d[10]>>
                 /\ Cardinality({j \in DOMAIN trace' :
                        trace'[j].ev = "delete_strategy" /\ trace'[j].obj = old}) = 1
                 /\ \A j \in DOMAIN trace' : trace'[j].ev # "double_free_strategy"]_vars

C9_Witness ==
    /\ booted
    /\ CurrentMode = STATE_CONNECTED
    /\ \E i \in Events("command") :
          /\ trace[i].arg = CMD_SET_MOOD
          /\ trace[i].data = <<1, 10, 20, 30>>
    /\ Events("delete_strategy") # {}
    /\ strats[objs[currentState].currentStrategy].kind = "Focus"
    /\ strats[objs[currentState].currentStrategy].c1 = <<10, 20, 30>>

----------------------------------------------------------------------------
(* Properties of the credential store (SpecStore)                          *)

\* C5: a load() that directly follows a saveCredentials(ssid, password) which
\* returned true (lengths at most 32 and 64, commit succeeded) returns true with
\* exactly that ssid and that password, whatever the store held before.
C5_SaveLoadRoundTrip ==
    [][(/\ Len(trace) = 1 /\ trace[1].ev = "save" /\ trace[1].arg = 1
        /\ Len(trace') = 1 /\ trace'[1].ev = "load")
        => /\ trace'[1].arg = 1
           /\ trace'[1].data = trace[1].data]_vars

C5_Witness ==
    /\ LastEvent.ev = "load"
    /\ LastEvent.arg = 1
    /\ LastEvent.data = <<<<97>>, <<>>>>
    /\ ~eeprom.dirty
    /\ eeprom.flash[ADDR_SSID + 1] = 99

\* C6 (as the specification states it): from a clearCredentials() until the next
\* saveCredentials() that returns true, every loadCredentials() returns false.
C6_AbsentAfterClear ==
    (cleared /\ LastEvent.ev = "load") => LastEvent.arg = 0

\* C7: a saveCredentials() with an SSID longer than 32 bytes or a password longer
\* than 64 bytes returns false and leaves buffer, flash and dirty flag as they were,
\* so that loadCredentials() returns what it returned before.
C7_OversizeRejected ==
    [][(/\ Len(trace') = 1 /\ trace'[1].ev = "save"
        /\ \/ Len(trace'[1].data[1]) > MAX_SSID
           \/ Len(trace'[1].data[2]) > MAX_PASS)
        => /\ trace'[1].arg = 0
           /\ eeprom' = eeprom
           /\ loadCredentials(eeprom', <<>>, <<>>) = loadCredentials(eeprom, <<>>, <<>>)]_vars

C7_Witness ==
    /\ LastEvent.ev = "save"
    /\ LastEvent.arg = 0
    /\ Len(LastEvent.data[1]) > MAX_SSID
    /\ loadCredentials(eeprom, <<>>, <<>>).ret

----------------------------------------------------------------------------
(* Properties of the status packets and of the mode changes                *)

\* positions before j of the events named e
Before(j, e) == {i \in DOMAIN trace' : i < j /\ trace'[i].ev = e}

Last(S) == CHOOSE x \in S : \A y \in S : x >= y

\* the mode code of the manager's current state when event j of the step happened
ActiveModeAt(j) ==
    IF Before(j, "install") = {} THEN CurrentMode
    ELSE trace'[Last(Before(j, "install"))].arg

\* C11 (as the specification states it): every heartbeat handed to the socket has
\* byte 0 = 0x10, byte 1 = the code of the mode active at that moment, byte 2 = the
\* battery percent held by the manager, byte 12 = the length of the name of the
\* sender's strategy, bytes 13.. = that name, and 13 + nameLen <= 32 bytes in all.
C11_HeartbeatLayout ==
    [][\A j \in DOMAIN trace' :
          trace'[j].ev = "send_heartbeat" =>
              LET p == trace'[j].data
                  o == objs[trace'[j].obj]
              IN  /\ Len(p) >= 13 /\ Len(p) <= 32
                  /\ p[1] = STATUS_HEARTBEAT
                  /\ p[2] = ActiveModeAt(j)
                  /\ p[3] = telemetry.lastBatteryPercent
                  /\ Len(p) = 13 + p[13]
                  /\ o.mode = STATE_CONNECTED
                  /\ o.currentStrategy # 0
                  /\ SubSeq(p, 14, Len(p)) = NameOf(strats[o.currentStrategy].kind)]_vars

\* C12: whenever an operation has returned (begin, a tick, a transitionTo call),
\* ArduinoOTA is armed exactly when the current state is an Updating state.
C12_ArmedIffUpdating ==
    booted => (otaArmed <=> CurrentMode = STATE_UPDATING)

C12_Witness ==
    /\ booted
    /\ otaArmed
    /\ CurrentMode = STATE_UPDATING
    /\ Events("ota_begin") # {}

\* C13 (as the specification states it): a tick in which the Connected state
\* dispatches get-status (0x04) hands a heartbeat to the socket after the dispatch.
C13_GetStatusSendsHeartbeat ==
    \A i \in Events("command") :
        (/\ trace[i].arg = CMD_GET_STATUS
         /\ trace[i].obj = currentState
         /\ CurrentMode = STATE_CONNECTED)
        => After(i, "send_heartbeat", currentState) # {}

\* C14 (as the specification states it): a Searching tick whose connection check
\* finds the link up returns with Connected current, and Searching's update goes
\* to Provisioning (handleTimeout) only in a tick without a successful connection.
C14_LinkUpEndsConnected ==
    /\ \A i \in Events("attempt_connection") :
          (trace[i].arg = 1 /\ booted) => CurrentMode = STATE_CONNECTED
    /\ \A j \in Events("handleTimeout") :
          trace[j].arg = STATE_SEARCHING =>
              \A i \in Events("attempt_connection") : i < j => trace[i].arg = 0

\* C15: while Connected, a tick that comes at least 5 s after the previous
\* connectivity check performs a check; a check restarts the 5 s period; a check
\* that finds the link down is followed, within the same tick, by the installation
\* of Searching; and Searching is installed straight after Connected's onExit only
\* after a check of that tick has found the link down
C15_LinkLossFallsBack ==
    [][/\ (booted /\ CurrentMode = STATE_CONNECTED
              /\ objs[currentState].connectionCheckTime + ShortTick >= 5000
              /\ Before(Len(trace') + 1, "call_transitionTo") = {})
          => \E i \in Before(Len(trace') + 1, "check_connection") :
                trace'[i].obj = currentState
       /\ \A i \in Before(Len(trace') + 1, "check_connection") :
             /\ trace'[i].obj = currentState /\ CurrentMode = STATE_CONNECTED
             /\ trace'[i].arg = 0 =>
                   \E j \in DOMAIN trace' :
                      /\ j > i /\ trace'[j].ev = "install"
                      /\ trace'[j].arg = STATE_SEARCHING
                      /\ Before(j, "install") = {}
             /\ (trace'[i].arg = 1 /\ booted' /\ currentState' = currentState) =>
                   objs'[currentState].connectionCheckTime = 0
       /\ \A j \in Before(Len(trace') + 1, "install") :
             (/\ trace'[j].arg = STATE_SEARCHING
              /\ Before(j, "onExit") # {}
              /\ trace'[Last(Before(j, "onExit"))].arg = STATE_CONNECTED)
             => \E i \in Before(j, "check_connection") : trace'[i].arg = 0]_vars

\* a Connected tick whose check found the link down has installed Searching
C15_Witness ==
    /\ booted /\ CurrentMode = STATE_SEARCHING
    /\ \E i \in Events("check_connection") :
          trace[i].arg = 0 /\ After(i, "install", currentState) # {}

\* C16: when OTA start is handled while the link is down, the Updating state that
\* is entered does nothing but hand over: after its onEnter the next events are
\* the creation of a Searching state, the start of the transition, Updating's
\* onExit and its release, then the installation of Searching; ArduinoOTA.begin()
\* is not called, and the operation ends outside Updating with OTA unarmed
C16_OfflineEntryAborts ==
    \A i \in Events("onEnter") :
        (/\ trace[i].arg = STATE_UPDATING
         /\ \E r \in Events("ota_requested") : r < i /\ trace[r].arg = 0)
        => /\ \E j \in Events("install") :
                 /\ j > i /\ trace[j].arg = STATE_SEARCHING
                 /\ \A k \in (i + 1)..(j - 1) :
                       trace[k].ev \in {"new", "transition_begin", "onExit", "clear", "delete"}
           /\ \A k \in Events("ota_begin") : k < i
           /\ booted => (~otaArmed /\ CurrentMode # STATE_UPDATING)

\* OTA start arrived with the link down and the device is back in Searching
C16_Witness ==
    /\ booted /\ CurrentMode = STATE_SEARCHING /\ ~otaArmed
    /\ \E r \in Events("ota_requested") : trace[r].arg = 0
    /\ \E i \in Events("onEnter") : trace[i].arg = STATE_UPDATING

----------------------------------------------------------------------------
(* Properties of the command handlers                                      *)

\* C17: a call of handleCommand on the Updating state with any command other than
\* get-status leaves the mode, the state objects (progress included), the OTA
\* session, the credential store, the strategies, the LED frame and brightness
\* and the telemetry as they were, and does nothing that is observable: no packet,
\* no reboot, no transition
C17_UpdatingIgnoresCommands ==
    [][(/\ booted /\ CurrentMode = STATE_UPDATING
        /\ trace' # <<>>
        /\ trace'[1].ev = "call_handleCommand"
        /\ trace'[1].arg # CMD_GET_STATUS)
       => /\ UNCHANGED <<booted, currentState, objs, strats, ledBrightness, frame,
                         wifiMode, otaArmed, now, eeprom, telemetry, cleared>>
          /\ Len(trace') = 1]_vars

\* Reset was handed to the Updating state in the middle of an upload
C17_Witness ==
    /\ booted /\ CurrentMode = STATE_UPDATING /\ otaArmed
    /\ objs[currentState].lastProgress > 0
    /\ trace = <<Ev("call_handleCommand", currentState, CMD_RESET, <<>>)>>

\* a Provision payload as the protocol lays it out: SSID length, SSID, password
\* length, password, each declared length within its bound and within the payload
WellFormed(data) ==
    /\ Len(data) >= 2
    /\ data[1] <= MAX_SSID
    /\ Len(data) >= data[1] + 2
    /\ data[2 + data[1]] <= MAX_PASS
    /\ Len(data) >= data[1] + data[2 + data[1]] + 2

\* C20: when handleCommand(CMD_PROVISION) is called on the Provisioning or the
\* Searching state, every payload index the decoder reads lies below the payload
\* length, and a payload that is not well formed causes no credential write, no
\* acknowledgment and no reboot
C20_DecodersStayInBounds ==
    \A i \in Events("call_handleCommand") :
        trace[i].arg = CMD_PROVISION =>
            /\ \A k \in Events("decode") :
                  /\ trace[k].arg = Len(trace[i].data)
                  /\ \A r \in DOMAIN trace[k].data : trace[k].data[r] < Len(trace[i].data)
            /\ ~WellFormed(trace[i].data) =>
                  /\ Events("save") = {} /\ Events("send_ack") = {}
                  /\ Events("reboot") = {} /\ booted

\* the Searching state decoded a payload whose password length runs past the end
C20_Witness ==
    /\ booted /\ CurrentMode = STATE_SEARCHING
    /\ trace = <<Ev("call_handleCommand", currentState, CMD_PROVISION, <<1, 1, 1>>),
                 Ev("decode", currentState, 3, <<0, 1, 2>>)>>

\* the Provisioning state decoded and dropped a payload cut off inside the SSID
C20_WitnessProvisioning ==
    /\ booted /\ CurrentMode = STATE_PROVISIONING
    /\ \E i \in Events("call_handleCommand") :
          /\ trace[i].data = <<MAX_SSID>> \o Fill(MAX_SSID, 97)
          /\ \E k \in Events("decode") : trace[k].data = <<0>>
          /\ Events("save") = {}

----------------------------------------------------------------------------
(* Properties of the device on the network                                 *)

\* C18 (as the specification states it): a get-status datagram that reaches the
\* device while the mode is Updating is eventually answered with a status packet
\* <<STATUS_STATE, STATE_UPDATING, progress>>
C18_StatusAnsweredWhileUpdating ==
    (\E i \in Events("datagram") :
        trace[i].obj = STATE_UPDATING /\ trace[i].arg = CMD_GET_STATUS)
    ~> (\E j \in Events("send_status") :
           /\ Len(trace[j].data) = 3
           /\ trace[j].data[1] = STATUS_STATE
           /\ trace[j].data[2] = STATE_UPDATING)

\* C19 (as the specification states it): a well-formed Provision datagram that
\* reaches the device while the mode is Searching leads to the credentials being
\* saved and the device rebooting, and a Reset datagram to the credentials being
\* cleared and the device rebooting
C19_SearchingObeysProvisionAndReset ==
    /\ (\E i \in Events("datagram") :
           /\ trace[i].obj = STATE_SEARCHING /\ trace[i].arg = CMD_PROVISION
           /\ WellFormed(trace[i].data))
       ~> (\E j \in Events("save") : After(j, "reboot", 0) # {})
    /\ (\E i \in Events("datagram") :
           trace[i].obj = STATE_SEARCHING /\ trace[i].arg = CMD_RESET)
       ~> (\E j \in Events("clear") : After(j, "reboot", 0) # {})

(* ------------------------------------------------------------------------ *)
(* C21: LuminaStateManager::reboot() is invoked only by a command handler:   *)
(* after a Provision command whose saveCredentials() returned true, or after *)
(* a Reset command's clearCredentials().  Every reboot in an operation is    *)
(* preceded, in that operation, by the dispatch of such a command, and       *)
(* between the dispatch and the reboot lie only the steps of that handler:   *)
(* no timeout, link check, update error, unknown command or refused          *)
(* transition stands between them or brings a reboot about on its own.       *)
(* ------------------------------------------------------------------------ *)
RebootSteps == {"decode", "save", "clear", "send_ack", "flash_green"}

C21_RebootOnlyBySaveOrReset ==
    \A r \in Events("reboot") :
        \E c \in Events("command") :
            /\ c < r
            /\ \A k \in (c + 1)..(r - 1) : trace[k].ev \in RebootSteps
            /\ \/ /\ trace[c].arg = CMD_PROVISION
                  /\ \E s \in (c + 1)..(r - 1) : trace[s].ev = "save" /\ trace[s].arg = 1
               \/ /\ trace[c].arg = CMD_RESET
                  /\ \E k \in (c + 1)..(r - 1) : trace[k].ev = "clear"

C21_Witness ==
    \E r \in Events("reboot") : \E s \in Events("save") :
        /\ s < r
        /\ trace[s].arg = 1
        /\ \E c \in Events("command") : c < s /\ trace[c].arg = CMD_PROVISION

C21_WitnessReset ==
    \E r \in Events("reboot") : \E k \in Events("clear") :
        /\ k < r
        /\ \E c \in Events("command") : c < k /\ trace[c].arg = CMD_RESET

(* ------------------------------------------------------------------------ *)
(* C22: a Reset command handled in Connected or in Provisioning calls        *)
(* clearCredentials() before reboot(), and the setup() that follows the      *)
(* restart finds no credentials: loadCredentials() returns false and the     *)
(* device goes from Searching to Provisioning.                               *)
(* ------------------------------------------------------------------------ *)
\* Commands are dispatched by the update() of Connected and of Provisioning
\* only, so a "command" event is a command handled in one of the two.
ResetRebooted ==
    /\ ~booted
    /\ \E c \in Events("command") : \E r \in Events("reboot") :
          /\ c < r
          /\ trace[c].arg = CMD_RESET
          /\ \E k \in Events("clear") : c < k /\ k < r

ResetHandled ==
    \E c \in Events("command") : trace[c].arg = CMD_RESET

StartsUnprovisioned ==
    /\ booted'
    /\ \E l \in DOMAIN trace' : trace'[l].ev = "load" /\ trace'[l].arg = 0
    /\ \A l \in DOMAIN trace' : trace'[l].ev = "load" => trace'[l].arg = 0
    /\ currentState' # 0
    /\ objs'[currentState'].mode = STATE_PROVISIONING

C22_ResetClearsBeforeReboot ==
    [][/\ ResetHandled => ResetRebooted
       /\ ResetRebooted => StartsUnprovisioned]_vars

\* The same with the outcome of the commit inside clearCredentials() taken
\* into account: when the flash holds an invalid sentinel after the Reset, the
\* next setup() ends in Provisioning.
C22_ClearedFlashStartsUnprovisioned ==
    [][(ResetRebooted /\ eeprom.flash[ADDR_MAGIC] # EEPROM_MAGIC)
          => StartsUnprovisioned]_vars

(* ------------------------------------------------------------------------ *)
(* saveCredentials() as the sequence of EEPROM.write calls it makes, in the  *)
(* order of the source: the magic byte, the SSID length, the SSID bytes, the *)
(* password length, the password bytes.                                      *)
(* ------------------------------------------------------------------------ *)
SaveSequence(ssid, password) ==
    <<  <<ADDR_MAGIC, EEPROM_MAGIC>>, <<ADDR_SSID_LEN, Len(ssid)>>  >>
    \o [i \in 1..Len(ssid) |-> <<ADDR_SSID + i - 1, ssid[i]>>]
    \o << <<ADDR_PASS_LEN, Len(password)>> >>
    \o [i \in 1..Len(password) |-> <<ADDR_PASS + i - 1, password[i]>>]

\* The byte at address a after the first k writes of seq: the value of the
\* latest of them that went to a, the byte of the buffer when none did
ByteAfter(ee, seq, k, a) ==
    LET W == {i \in 1..k : seq[i][1] = a}
    IN  IF W = {} THEN ee.ram[a]
        ELSE seq[CHOOSE i \in W : \A j \in W : j <= i][2]

\* The buffer after the first k writes of seq
WriteFirst(ee, seq, k) ==
    [ram |-> [a \in DOMAIN ee.ram |-> ByteAfter(ee, seq, k, a)],
     flash |-> ee.flash,
     dirty |-> ee.dirty \/ \E i \in 1..k : ByteAfter(ee, seq, i - 1, seq[i][1]) # seq[i][2]]

\* The fields of the buffer are those of (ssid, password)
FieldsWritten(ee, ssid, password) ==
    /\ EEPROMread(ee, ADDR_SSID_LEN) = Len(ssid)
    /\ EEPROMread(ee, ADDR_PASS_LEN) = Len(password)
    /\ ReadBytes(ee, ADDR_SSID, Len(ssid)) = ssid
    /\ ReadBytes(ee, ADDR_PASS, Len(password)) = password

SaveAccepted(e) ==
    /\ e.ev = "save"
    /\ Len(e.data[1]) <= MAX_SSID
    /\ Len(e.data[2]) <= MAX_PASS

\* The write sequence and the write set of saveCredentials agree: the same
\* addresses, each written once, with the same values.
SaveSequenceIsSaveWrites ==
    [][\A j \in DOMAIN trace' : SaveAccepted(trace'[j]) =>
          LET seq == SaveSequence(trace'[j].data[1], trace'[j].data[2])
              w == SaveWrites(trace'[j].data[1], trace'[j].data[2])
          IN  /\ {seq[i][1] : i \in DOMAIN seq} = DOMAIN w
              /\ Cardinality(DOMAIN w) = Len(seq)
              /\ \A i \in DOMAIN seq : w[seq[i][1]] = seq[i][2]]_vars

(* ------------------------------------------------------------------------ *)
(* C23: in saveCredentials() the magic byte is the last byte written before  *)
(* the commit, after both lengths and all SSID and password bytes; so, in a  *)
(* save that starts from a buffer without valid magic, the buffer never      *)
(* holds the valid magic while a field of the new credentials is still       *)
(* missing.                                                                  *)
(* ------------------------------------------------------------------------ *)
C23_SentinelWrittenLast ==
    [][\A j \in DOMAIN trace' : SaveAccepted(trace'[j]) =>
          LET ssid == trace'[j].data[1]
              password == trace'[j].data[2]
              seq == SaveSequence(ssid, password)
          IN  /\ seq[Len(seq)][1] = ADDR_MAGIC
              /\ \A k \in 1..(Len(seq) - 1) : seq[k][1] # ADDR_MAGIC
              /\ EEPROMread(eeprom, ADDR_MAGIC) # EEPROM_MAGIC =>
                    \A k \in 0..Len(seq) :
                        EEPROMread(WriteFirst(eeprom, seq, k), ADDR_MAGIC) = EEPROM_MAGIC
                           => FieldsWritten(WriteFirst(eeprom, seq, k), ssid, password)]_vars

\* What the code does instead: the magic byte is the first byte written.
C23_SentinelWrittenFirst ==
    [][\A j \in DOMAIN trace' : SaveAccepted(trace'[j]) =>
          SaveSequence(trace'[j].data[1], trace'[j].data[2])[1] = <<ADDR_MAGIC, EEPROM_MAGIC>>]_vars

(* ------------------------------------------------------------------------ *)
(* C24: when the EEPROM commit fails, saveCredentials() returns false, and   *)
(* the Provision handler of Provisioning then sends no acknowledgment, shows *)
(* no green frame and does not reboot: the operation sends nothing after the *)
(* save, the device is still running, and unless the 5 minute timeout fires  *)
(* in the same update() the active state is the same Provisioning state.     *)
(* ------------------------------------------------------------------------ *)
FailedProvision(s) ==
    /\ trace[s].ev = "save"
    /\ trace[s].arg = 0
    /\ \E c \in Events("command") : c < s /\ trace[c].arg = CMD_PROVISION

C24_CommitFailureIsSilent ==
    \A s \in DOMAIN trace : FailedProvision(s) =>
        /\ \A k \in DOMAIN trace :
              k > s => trace[k].ev \notin {"send_ack", "flash_green", "reboot"}
        /\ Events("send_ack") = {} /\ Events("flash_green") = {} /\ Events("reboot") = {}
        /\ frame.kind # "green"
        /\ booted
        /\ Events("handleTimeout") = {} =>
              /\ CurrentMode = STATE_PROVISIONING
              /\ \E c \in Events("command") : trace[c].obj = currentState
              /\ Events("transition_begin") = {}

C24_Witness ==
    \E s \in DOMAIN trace :
        /\ FailedProvision(s)
        /\ CurrentMode = STATE_PROVISIONING
        /\ EEPROMread(eeprom, ADDR_MAGIC) = EEPROM_MAGIC
        /\ eeprom.flash[ADDR_MAGIC] # EEPROM_MAGIC

(* ------------------------------------------------------------------------ *)
(* C25: with loop() running and the clock advancing the device is never      *)
(* stuck.  Searching is left once 30 s have passed, Provisioning once        *)
(* 5 minutes have passed and Updating once 10 minutes have passed, with no   *)
(* datagram, link or update event needed; and every operation in which such  *)
(* a timeout fired ends with the device running and a live state active.     *)
(* ------------------------------------------------------------------------ *)
TimeoutFired == Events("handleTimeout") \cup Events("update_timeout")

C25_TimeoutExitLeavesLiveState ==
    TimeoutFired # {} =>
        /\ booted
        /\ currentState \in 1..MaxObjs
        /\ objs[currentState].mode \in Modes

\* The bounds: no operation ends with a state still active past its timeout.
C25_BoundsKept ==
    booted =>
        /\ CurrentMode = STATE_SEARCHING => objs[currentState].stateStartTime <= WIFI_TIMEOUT
        /\ CurrentMode = STATE_PROVISIONING =>
              objs[currentState].stateStartTime <= PROVISION_TIMEOUT
        /\ CurrentMode = STATE_UPDATING => objs[currentState].stateStartTime <= 600000

\* Progress: under fair scheduling of setup() and loop() every stay in
\* Searching, in Provisioning and in Updating ends.
C25_TimedStatesAreLeft ==
    /\ (booted /\ CurrentMode = STATE_SEARCHING)
          ~> (~booted \/ CurrentMode # STATE_SEARCHING \/ objs[currentState].stateStartTime = 0)
    /\ (booted /\ CurrentMode = STATE_PROVISIONING)
          ~> (~booted \/ CurrentMode # STATE_PROVISIONING \/ objs[currentState].stateStartTime = 0)
    /\ (booted /\ CurrentMode = STATE_UPDATING)
          ~> (~booted \/ CurrentMode # STATE_UPDATING)

\* The timeout of Searching, which update() checks before it reads the heap
\* through the released state, is the one that can end in a reset.
C25_OtherTimeoutsLeaveLiveState ==
    (TimeoutFired # {} /\ \A k \in TimeoutFired : trace[k].arg # STATE_SEARCHING) =>
        /\ booted
        /\ currentState \in 1..MaxObjs
        /\ objs[currentState].mode \in Modes

(* ------------------------------------------------------------------------ *)
(* C26: every state instance made by a factory is released exactly once, by *)
(* the transitionTo that replaces it and after its onExit has run.  In every *)
(* operation (nested transitions included): a delete releases the state that *)
(* was current when its transitionTo began, directly after that state's      *)
(* onExit and before the replacement is installed; it releases a live        *)
(* instance (no second release); every instance created in the operation is  *)
(* either the active state at the end or was released once; and at the end   *)
(* of the operation the active state is the only instance alive (no leak).   *)
(* ------------------------------------------------------------------------ *)
\* events about instance o strictly between positions a and b
Between(a, b, names, o) ==
    {k \in (a + 1)..(b - 1) : trace[k].ev \in names /\ trace[k].obj = o}

ReleasedByReplacement(d) ==
    LET o == trace[d].obj
    IN  /\ trace[d].arg \in Modes
        /\ \E b \in Events("transition_begin") : \E x \in Events("onExit") :
              /\ b < x /\ x < d
              /\ trace[b].arg = o /\ trace[b].obj # o
              /\ trace[x].obj = o
              /\ Between(b, d, {"transition_begin", "install", "new", "delete"}, o) = {}
              /\ \A k \in (b + 1)..(d - 1) : trace[k].ev # "install"
              /\ \E i \in Events("install") :
                    /\ i > d /\ trace[i].obj = trace[b].obj
                    /\ \A k \in (d + 1)..(i - 1) : trace[k].ev \notin {"install", "onEnter"}

CreatedThenHeldOrReleased(n) ==
    LET o == trace[n].obj
        D == {d \in Events("delete") : d > n /\ trace[d].obj = o
                                        /\ Between(n, d, {"new"}, o) = {}}
    IN  \/ Cardinality(D) = 1
        \/ /\ D = {}
           /\ currentState = o
           /\ \A k \in DOMAIN trace : k > n => ~(trace[k].ev = "new" /\ trace[k].obj = o)

C26_ReleasedExactlyOnce ==
    /\ \A d \in Events("delete") : ReleasedByReplacement(d)
    /\ booted =>
          /\ \A n \in Events("new") : CreatedThenHeldOrReleased(n)
          /\ {i \in 1..MaxObjs : objs[i].mode # 0} = {currentState}

\* An operation with a transition requested from inside onEnter: two instances
\* released, each by its own replacement.
C26_Witness ==
    /\ booted
    /\ Cardinality(Events("delete")) = 2
    /\ \E b1, b2 \in Events("transition_begin") : \E e \in Events("onEnter") :
          b1 < e /\ e < b2 /\ trace[e].obj = trace[b1].obj /\ trace[b2].arg = trace[e].obj

(* ------------------------------------------------------------------------ *)
(* C27: the timeout transition of Updating (to Connected) is taken only when *)
(* 10 minutes have passed since Updating was entered: whenever update() of   *)
(* Updating reports its timeout, the state that reports it is the active     *)
(* Updating state and more than 600000 ms have passed since its onEnter.     *)
(* (That no update activity fell into those 10 minutes is the stronger part  *)
(* of the claim; the timeout that fires early already refutes it.)           *)
(* ------------------------------------------------------------------------ *)
TimedOutUpdating(k) ==
    /\ currentState # 0
    /\ trace'[k].obj = currentState
    /\ objs[currentState].mode = STATE_UPDATING
    /\ \E dt \in {ShortTick, LongTick} : objs[currentState].stateStartTime + dt > 600000

C27_TimeoutOnlyAfterTenMinutes ==
    [][\A k \in DOMAIN trace' : trace'[k].ev = "update_timeout" => TimedOutUpdating(k)]_vars

\* While the Updating state that runs update() has not been released in the
\* same update(), its timeout fires only after the 10 minutes.
C27_LiveStateTimesOutAfterTenMinutes ==
    [][\A k \in DOMAIN trace' :
          (/\ trace'[k].ev = "update_timeout"
           /\ \A d \in Before(k, "delete") : trace'[d].obj # trace'[k].obj)
          => TimedOutUpdating(k)]_vars

(* ------------------------------------------------------------------------ *)
(* C28: in Updating, update() draws the yellow busy pulse only while no      *)
(* progress has been reported: whenever the pulse is drawn, the Updating     *)
(* state has no progress percent recorded and no progress bar was drawn      *)
(* earlier in the same update().                                             *)
(* ------------------------------------------------------------------------ *)
C28_PulseOnlyBeforeProgress ==
    [][\A y \in DOMAIN trace' : trace'[y].ev = "yellow_pulse" =>
          /\ currentState # 0
          /\ objs[currentState].mode = STATE_UPDATING
          /\ objs[currentState].lastProgress = 0
          /\ Before(y, "progress_bar") = {}]_vars

\* What update() does instead: the pulse is drawn whenever 30 ms have passed
\* since the last one, whatever progress has been reported.
C28_PulseEveryThirtyMs ==
    [][(/\ booted /\ booted'
        /\ currentState # 0 /\ currentState' = currentState
        /\ objs[currentState].mode = STATE_UPDATING
        /\ objs'[currentState].mode = STATE_UPDATING
        /\ \E k \in DOMAIN trace' : trace'[k].ev \in {"progress_bar", "yellow_pulse"})
       => \E y \in DOMAIN trace' : trace'[y].ev = "yellow_pulse"]_vars

(* ------------------------------------------------------------------------ *)
(* The progress callback on its own: the device is brought into Updating     *)
(* (Provision, restart, link up, OTA start) and ArduinoOTA.handle() then     *)
(* invokes onProgress(done, total) for image sizes up to MaxImage bytes.     *)
(* ------------------------------------------------------------------------ *)
MaxImage == 16777216
SmallTotals == {1, 3, 7, 100, 101}
LargeTotals == {1000, MaxImage}

ProgressInputs ==
    UNION {{<<done, total>> : done \in 0..total} : total \in SmallTotals}
    \cup UNION {{<<0, t>>, <<1, t>>, <<(t \div 100) - 1, t>>, <<t \div 100, t>>,
                 <<t \div 2, t>>, <<t - 1, t>>, <<t, t>>} : t \in LargeTotals}

ProgressSetupInputs(mode) ==
    {In(LongTick, mode # STATE_PROVISIONING,
        CASE mode = STATE_PROVISIONING -> ProvisionPacket(CredA)
          [] mode = STATE_CONNECTED -> <<CMD_OTA_START>>
          [] OTHER -> NoPacket,
        <<>>, TRUE, adc, heap, rssi, 0) :
        adc \in AdcInputs, heap \in HeapInputs, rssi \in RssiInputs}

ProgressSetup ==
    /\ booted
    /\ objs[currentState].mode # STATE_UPDATING
    /\ \E in \in ProgressSetupInputs(objs[currentState].mode) :
          TickOutcome(AdvanceTime(Machine, in), in)

\* The onProgress lambda, called by ArduinoOTA while the mechanism is armed
OnProgress ==
    /\ booted
    /\ objs[currentState].mode = STATE_UPDATING
    /\ otaArmed
    /\ \E p \in ProgressInputs :
          Commit(Settle(OtaCallback(Emit(Machine, Ev("ota_progress", currentState, 0, p)),
                                    currentState, Cb("progress", p[1], p[2]))))

ProgressNext == Begin \/ ProgressSetup \/ OnProgress

SpecProgress == Init /\ [][ProgressNext]_vars

(* ------------------------------------------------------------------------ *)
(* C29: for every progress callback with total > 0 and 0 <= done <= total    *)
(* the percent is floor(done * 100 / total), a value in 0..100; the bar is   *)
(* redrawn exactly when that percent differs from lastProgress (the last     *)
(* percent reported, 0 on entry), the percent becomes lastProgress, and a    *)
(* redrawn bar lights floor(percent * LED_COUNT / 100) pixels, at most       *)
(* LED_COUNT.                                                                *)
(* ------------------------------------------------------------------------ *)
ProgressCalled == Len(trace') > 0 /\ trace'[1].ev = "ota_progress"

C29_ProgressPercentAndBar ==
    [][ProgressCalled =>
          LET done == trace'[1].data[1]
              total == trace'[1].data[2]
              percent == (done * 100) \div total
              last == objs[currentState].lastProgress
              bars == {k \in DOMAIN trace' : trace'[k].ev = "progress_bar"}
          IN  /\ total > 0 /\ done \in 0..total
              /\ percent \in 0..100
              /\ currentState' = currentState
              /\ objs'[currentState].lastProgress = percent
              /\ (percent # last) <=> (bars # {})
              /\ Cardinality(bars) <= 1
              /\ \A k \in bars : trace'[k].arg = percent
              /\ percent # last =>
                    /\ frame' = [kind |-> "progress", arg |-> (percent * LED_COUNT) \div 100]
                    /\ frame'.arg \in 0..LED_COUNT
              /\ percent = last => frame' = frame]_vars

C29_Witness ==
    /\ Len(trace) > 1
    /\ trace[1].ev = "ota_progress"
    /\ trace[1].data = <<MaxImage, MaxImage>>
    /\ trace[2].ev = "progress_bar"
    /\ trace[2].arg = 100
    /\ frame = [kind |-> "progress", arg |-> LED_COUNT]

C29_WitnessUnchanged ==
    /\ Len(trace) = 1
    /\ trace[1].ev = "ota_progress"
    /\ trace[1].data = <<1, 3>>
    /\ objs[currentState].lastProgress = 33

(* ------------------------------------------------------------------------ *)
(* C30: a call of handleCommand on the Connected state with an opcode it     *)
(* does not know, with set-color and fewer than 3 payload bytes, with        *)
(* set-mood and fewer than 4, or with set-brightness and none, leaves the    *)
(* mode, the state objects (active strategy included), the strategies, the   *)
(* LED brightness and frame, the credential store and everything else as     *)
(* they were, and sends nothing, requests no transition and does not reboot. *)
(* ------------------------------------------------------------------------ *)
ConnectedOpcodes ==
    {CMD_SET_COLOR, CMD_SET_MOOD, CMD_SET_BRIGHTNESS, CMD_GET_STATUS,
     CMD_OTA_START, CMD_RESET}

ConnectedRejects(cmd, data) ==
    \/ cmd \notin ConnectedOpcodes
    \/ cmd = CMD_SET_COLOR /\ Len(data) < 3
    \/ cmd = CMD_SET_MOOD /\ Len(data) < 4
    \/ cmd = CMD_SET_BRIGHTNESS /\ Len(data) < 1

C30_ConnectedRejectsQuietly ==
    [][(/\ booted /\ CurrentMode = STATE_CONNECTED
        /\ trace' # <<>>
        /\ trace'[1].ev = "call_handleCommand"
        /\ ConnectedRejects(trace'[1].arg, trace'[1].data))
       => /\ UNCHANGED <<booted, currentState, objs, strats, ledBrightness, frame,
                         wifiMode, otaArmed, now, eeprom, telemetry, cleared>>
          /\ \A k \in 2..Len(trace') : trace'[k].ev \in {"command", "unknown_command"}]_vars

\* A set-mood that is one byte short reached a Connected state whose strategy
\* had been replaced before.
C30_Witness ==
    /\ booted /\ CurrentMode = STATE_CONNECTED
    /\ Len(trace) > 0
    /\ trace[1] = Ev("call_handleCommand", currentState, CMD_SET_MOOD, <<2, 1, 2>>)
    /\ objs[currentState].currentStrategy # 0
    /\ strats[objs[currentState].currentStrategy].kind # "Calm"

C30_WitnessUnknown ==
    /\ booted /\ CurrentMode = STATE_CONNECTED
    /\ Len(trace) > 0
    /\ trace[1] = Ev("call_handleCommand", currentState, 7, <<1, 2, 3>>)
    /\ \E k \in Events("unknown_command") : trace[k].arg = 7

(* ------------------------------------------------------------------------ *)
(* The heap check on its own: setup() and loop() with no datagram and no     *)
(* link, and ESP.getFreeHeap() returning samples that stay equal, shrink by  *)
(* less than, exactly and more than 1024 bytes, and grow.                    *)
(* ------------------------------------------------------------------------ *)
HeapSamples == {40000, 39000, 38976, 38975, 41000}

HeapTickInputs ==
    {In(dt, FALSE, NoPacket, <<>>, TRUE, adc, heap, rssi, 0) :
        dt \in IF ShortTickAllowed THEN TickDeltas ELSE {LongTick},
        adc \in AdcInputs, heap \in HeapSamples, rssi \in RssiInputs}

HeapTick ==
    /\ booted
    /\ \E in \in HeapTickInputs : TickOutcome(AdvanceTime(Machine, in), in)

HeapNext == Begin \/ HeapTick

SpecHeap == Init /\ [][HeapNext]_vars

\* a 30 s heap check ran in this update(): the static samples exist and the
\* check time was taken anew
HeapChecked == telemetry.heapInit /\ booted /\ booted' /\ telemetry'.lastHeapCheck = 0

LeakDiagnostics == {k \in DOMAIN trace' : trace'[k].ev = "memory_leak_diag"}

(* ------------------------------------------------------------------------ *)
(* C31: the memory diagnostic is emitted exactly at a heap check at which    *)
(* the free heap is more than 1024 bytes below the previous sample; it is    *)
(* not emitted when the free heap stayed equal or grew; and nothing follows  *)
(* it in the update(): no transition, no reboot.                             *)
(* ------------------------------------------------------------------------ *)
C31_DiagnosticIffShrunk ==
    [][/\ (LeakDiagnostics # {})
            <=> (HeapChecked /\ telemetry.lastHeap - telemetry'.lastHeap > 1024)
       /\ \A k \in LeakDiagnostics : k = Len(trace') /\ booted']_vars

\* What the unsigned subtraction gives instead: the diagnostic is emitted at a
\* heap check when the free heap shrank by more than 1024 bytes or grew at all.
C31_DiagnosticAlsoWhenGrown ==
    [][/\ (LeakDiagnostics # {})
            <=> (HeapChecked /\ (\/ telemetry.lastHeap - telemetry'.lastHeap > 1024
                                 \/ telemetry'.lastHeap > telemetry.lastHeap))
       /\ \A k \in LeakDiagnostics : k = Len(trace') /\ booted']_vars

(* ------------------------------------------------------------------------ *)
(* C32: after every battery resample, the first three after a restart        *)
(* included, the reported voltage is the average of the raw voltage samples  *)
(* taken so far, the last four at most, and the reported percent is the      *)
(* clamped linear map of that voltage (3.0 V = 0, 4.2 V = 100).              *)
(* Voltages are in millivolts; a slot of readings[] that still holds 0 has   *)
(* not been written since the restart (every raw sample here is above 0).    *)
(* ------------------------------------------------------------------------ *)
SlotsWritten == {i \in 1..4 : telemetry.readings[i] # 0}

ReadingsSum ==
    telemetry.readings[1] + telemetry.readings[2]
        + telemetry.readings[3] + telemetry.readings[4]

ClampedPercent(mv) ==
    IF mv >= BATTERY_FULL THEN 100
    ELSE IF mv <= BATTERY_EMPTY THEN 0
    ELSE ((mv - BATTERY_EMPTY) * 100) \div (BATTERY_FULL - BATTERY_EMPTY)

C32_VoltageIsAverageOfSamples ==
    (booted /\ SlotsWritten # {}) =>
        /\ telemetry.lastBatteryVoltage = ReadingsSum \div Cardinality(SlotsWritten)
        /\ telemetry.lastBatteryPercent = ClampedPercent(telemetry.lastBatteryVoltage)

\* What readBatteryVoltage() reports instead: the sum of the four slots divided
\* by four, whether or not all four have been written.
C32_VoltageIsSumOverFour ==
    booted =>
        /\ telemetry.lastBatteryVoltage = ReadingsSum \div 4
        /\ telemetry.lastBatteryPercent = ClampedPercent(telemetry.lastBatteryVoltage)
        /\ Cardinality(SlotsWritten) = 4 =>
              telemetry.lastBatteryVoltage = telemetry.readings[1]

(* ------------------------------------------------------------------------ *)
(* C33: every acknowledgment Provisioning sends to the requester, after a    *)
(* successful Provision command and after a Reset command, is exactly the    *)
(* two-byte packet [0x13][modeCode].                                         *)
(* ------------------------------------------------------------------------ *)
Acks == {k \in DOMAIN trace : trace[k].ev = "send_ack"}

C33_AckIsTwoBytes ==
    \A k \in Acks :
        /\ Len(trace[k].data) = 2
        /\ trace[k].data[1] = STATUS_STATE
        /\ trace[k].data[2] \in Modes

\* What the code sends: two bytes naming Searching after a stored Provision,
\* the single byte 0x13 after a Reset.
C33_AckAfterResetIsOneByte ==
    \A k \in Acks :
        \/ /\ trace[k].data = <<STATUS_STATE, STATE_SEARCHING>>
           /\ \E j \in 1..(k - 1) : trace[j].ev = "save"
        \/ /\ trace[k].data = <<STATUS_STATE>>
           /\ \E j \in 1..(k - 1) : trace[j].ev = "clear"

(* ------------------------------------------------------------------------ *)
(* PartyStrategy::apply as a function of the time and the three colors: the  *)
(* ring of LED_COUNT pixels, pixel i at index i (0-based).                   *)
(* ------------------------------------------------------------------------ *)
\* PartyOffset without the rotation
PartyOffsetStill(time) == 0

PartyOffset(time) == (time \div 50) % LED_COUNT

PartyPixel(i, time, c1, c2, c3) ==
    LET pos == (i + PartyOffset(time)) % LED_COUNT
    IN  IF pos < LED_COUNT \div 3 THEN c1
        ELSE IF pos < (2 * LED_COUNT) \div 3 THEN c2
        ELSE c3

PartyApply(time, c1, c2, c3) ==
    [i \in 0..(LED_COUNT - 1) |-> PartyPixel(i, time, c1, c2, c3)]

\* the times and colors the strategy is applied to
MaxPartySteps == 17

PartyTimes ==
    {50 * k + d : k \in 0..MaxPartySteps, d \in {0, 49}} \cup {2147483647}

PartyPalette == {<<255, 0, 0>>, ColorCONNECTED, ColorSEARCHING}

PartyRender ==
    /\ \E time \in PartyTimes, c1 \in PartyPalette, c2 \in PartyPalette, c3 \in PartyPalette :
          /\ frame' = [kind |-> "party",
                       arg  |-> [time |-> time, colors |-> <<c1, c2, c3>>,
                                 pixels |-> PartyApply(time, c1, c2, c3)]]
          /\ trace' = <<Ev("apply_party", 0, time, <<>>)>>
    /\ UNCHANGED <<booted, currentState, objs, strats, ledBrightness, wifiMode,
                   otaArmed, now, eeprom, telemetry, cleared>>

PartyNext == PartyRender

SpecParty == Init /\ [][PartyNext]_vars

PartyShown == frame.kind = "party"

PixelsOf(c) == {i \in 0..(LED_COUNT - 1) : frame.arg.pixels[i] = c}

DistinctColors ==
    /\ frame.arg.colors[1] # frame.arg.colors[2]
    /\ frame.arg.colors[2] # frame.arg.colors[3]
    /\ frame.arg.colors[1] # frame.arg.colors[3]

\* the rotated position of pixel i at the frame's time
RingPos(i) == (i + ((frame.arg.time \div 50) % LED_COUNT)) % LED_COUNT

(* ------------------------------------------------------------------------ *)
(* C34 as stated: for every time t the Party strategy colors pixel i by the  *)
(* band of position (i + (floor(t/50) mod N)) mod N, N = LED_COUNT, and the  *)
(* three color bands contain the same number of pixels.                      *)
(* ------------------------------------------------------------------------ *)
C34_BandsOfEqualSize ==
    (PartyShown /\ DistinctColors) =>
        /\ Cardinality(PixelsOf(frame.arg.colors[1])) = Cardinality(PixelsOf(frame.arg.colors[2]))
        /\ Cardinality(PixelsOf(frame.arg.colors[2])) = Cardinality(PixelsOf(frame.arg.colors[3]))

(* ------------------------------------------------------------------------ *)
(* C34 amended: pixel i takes the first color when 3 * (pos + 1) <= N, the   *)
(* second when N < 3 * (pos + 1) <= 2 * N, the third otherwise, where        *)
(* pos = (i + (floor(t/50) mod N)) mod N; with distinct colors the bands     *)
(* hold floor(N/3), floor(2N/3) - floor(N/3) and N - floor(2N/3) pixels,     *)
(* which is 5, 5 and 6 for N = 16.                                           *)
(* ------------------------------------------------------------------------ *)
C34_BandsByRotatedPosition ==
    PartyShown =>
        /\ \A i \in 0..(LED_COUNT - 1) :
              frame.arg.pixels[i] =
                  IF 3 * (RingPos(i) + 1) <= LED_COUNT THEN frame.arg.colors[1]
                  ELSE IF 3 * (RingPos(i) + 1) <= 2 * LED_COUNT THEN frame.arg.colors[2]
                  ELSE frame.arg.colors[3]
        /\ DistinctColors =>
              /\ Cardinality(PixelsOf(frame.arg.colors[1])) = LED_COUNT \div 3
              /\ Cardinality(PixelsOf(frame.arg.colors[2])) =
                    (2 * LED_COUNT) \div 3 - LED_COUNT \div 3
              /\ Cardinality(PixelsOf(frame.arg.colors[3])) =
                    LED_COUNT - (2 * LED_COUNT) \div 3

\* a frame rotated by three positions: pixel 0 is in the first band, pixel 2
\* already in the second, and the first band wraps around the end of the ring
C34_Witness ==
    /\ PartyShown /\ DistinctColors
    /\ (frame.arg.time \div 50) % LED_COUNT = 3
    /\ frame.arg.pixels[0] = frame.arg.colors[1]
    /\ frame.arg.pixels[2] = frame.arg.colors[2]
    /\ frame.arg.pixels[LED_COUNT - 4] = frame.arg.colors[3]
    /\ frame.arg.pixels[LED_COUNT - 1] = frame.arg.colors[1]

\* the largest time of the set: offset 8
C34_WitnessLate ==
    /\ PartyShown /\ DistinctColors
    /\ frame.arg.time = 2147483647
    /\ frame.arg.pixels[0] = frame.arg.colors[2]

(* ------------------------------------------------------------------------ *)
(* C35: after the update() of the current state has requested a transition  *)
(* (Connected on link loss or on start-update, Searching on connection       *)
(* success, Updating's error callback) the released state does nothing more  *)
(* in that tick: after its deletion the step holds no event of that state    *)
(* (no packet, no rendering, no timeout handling, no further transition      *)
(* request) and no fault from an access to its released fields.              *)
(* ------------------------------------------------------------------------ *)
\* the transition that deleted the current state at position d of the step was
\* requested by one of the four causes, noted at position j
RequestedInUpdate(j, d) ==
    /\ j < d
    /\ trace'[j].obj = currentState
    /\ \/ trace'[j].ev = "check_connection" /\ trace'[j].arg = 0
       \/ trace'[j].ev = "attempt_connection" /\ trace'[j].arg = 1
       \/ trace'[j].ev = "ota_requested"
       \/ trace'[j].ev = "ota_error"

ReleasedInUpdate ==
    {d \in DOMAIN trace' :
        /\ booted
        /\ trace'[d].ev = "delete" /\ trace'[d].obj = currentState
        /\ \E j \in DOMAIN trace' : RequestedInUpdate(j, d)}

\* the steps of the released state after position d: events of the object until
\* its slot is handed out again, and faults
ActsAfterRelease(d) ==
    {k \in DOMAIN trace' :
        /\ k > d
        /\ \/ trace'[k].ev = "crash"
           \/ /\ trace'[k].obj = currentState
              /\ \A n \in (d + 1)..k : trace'[n].ev # "new" \/ trace'[n].obj # currentState}

C35_ReleasedStateIsSilent ==
    [][\A d \in ReleasedInUpdate : ActsAfterRelease(d) = {}]_vars

\* What holds instead: whatever follows the release is one of the continuations
\* of update() on the released object (a fault, a heartbeat, a rendering, a
\* timeout handled), never a command dispatched to it.
C35_ReleasedStateGoesOn ==
    [][\A d \in ReleasedInUpdate : \A k \in ActsAfterRelease(d) :
          trace'[k].ev \in {"crash", "send_heartbeat", "apply_strategy", "yellow_pulse",
                            "handleTimeout", "update_timeout"}]_vars

(* ------------------------------------------------------------------------ *)
(* C36: the only mode changes that ever occur are (initial)->Searching,      *)
(* Searching->Provisioning, Searching->Connected, Provisioning->Searching,   *)
(* Connected->Searching, Connected->Updating, Updating->Connected and        *)
(* Updating->Searching; Updating is entered only from Connected on a         *)
(* start-update command, and Provisioning is never entered directly from     *)
(* Connected or Updating.  A mode change is the installation of a state:     *)
(* from the mode active just before it to the mode of the installed state    *)
(* (0 stands for no state, before begin).                                    *)
(* ------------------------------------------------------------------------ *)
ModeChanges ==
    {<<ActiveModeAt(j), trace'[j].arg>> : j \in {i \in DOMAIN trace' : trace'[i].ev = "install"}}

AllowedChanges ==
    {<<0, STATE_SEARCHING>>,
     <<STATE_SEARCHING, STATE_PROVISIONING>>, <<STATE_SEARCHING, STATE_CONNECTED>>,
     <<STATE_PROVISIONING, STATE_SEARCHING>>,
     <<STATE_CONNECTED, STATE_SEARCHING>>, <<STATE_CONNECTED, STATE_UPDATING>>,
     <<STATE_UPDATING, STATE_CONNECTED>>, <<STATE_UPDATING, STATE_SEARCHING>>}

\* the installation at position j of the step follows a start-update command
AfterStartUpdate(j) ==
    \E r \in DOMAIN trace' : r < j /\ trace'[r].ev = "ota_requested"

C36_OnlyListedModeChanges ==
    [][/\ ModeChanges \subseteq AllowedChanges
       /\ \A j \in DOMAIN trace' :
             (trace'[j].ev = "install" /\ trace'[j].arg = STATE_UPDATING)
                 => AfterStartUpdate(j)]_vars

\* What holds instead: besides the listed changes, a released Searching state
\* that handles its timeout installs Provisioning over Connected, and a released
\* Updating state that handles its timeout installs Connected over Connected;
\* Updating is installed only after a start-update command.
C36_ModeChangesWithReleasedStates ==
    [][/\ ModeChanges \subseteq
             AllowedChanges \cup {<<STATE_CONNECTED, STATE_PROVISIONING>>,
                                  <<STATE_CONNECTED, STATE_CONNECTED>>}
       /\ \A j \in DOMAIN trace' :
             (trace'[j].ev = "install" /\ trace'[j].arg = STATE_UPDATING)
                 => AfterStartUpdate(j) /\ ActiveModeAt(j) = STATE_CONNECTED]_vars

(* ------------------------------------------------------------------------ *)
(* C37: while a Connected state exists it owns exactly one live lighting     *)
(* strategy.  After every step that ends in Connected, whatever set-color    *)
(* and set-mood commands were handled (any type byte, any payload length),   *)
(* the live strategies are exactly the current state's currentStrategy,      *)
(* which is not null; every heartbeat and every rendering done by a state    *)
(* that exists at that moment dereferences a strategy that is live at that   *)
(* moment; and every replaced strategy is released exactly once: a strategy  *)
(* that was live before the step and is no longer the same object after it   *)
(* was deleted once, none is deleted twice, and none is left behind (in a    *)
(* step that does not end in a restart, which empties the heap).             *)
(* ------------------------------------------------------------------------ *)
LiveIn(st) == {s \in DOMAIN st : st[s].kind # "free"}

\* the state object o has been deleted before position k of the step and its
\* slot has not been handed out again
DeadAt(o, k) ==
    \E d \in 1..(k - 1) :
        /\ trace'[d].ev = "delete" /\ trace'[d].obj = o
        /\ \A n \in (d + 1)..(k - 1) : trace'[n].ev # "new" \/ trace'[n].obj # o

StrategyEvents(sid, k) ==
    {n \in 1..(k - 1) : trace'[n].ev \in {"new_strategy", "delete_strategy"}
                        /\ trace'[n].obj = sid}

\* strategy sid is a live object at position k of the step
StrategyLiveAt(sid, k) ==
    /\ sid \in 1..MaxStrats
    /\ IF StrategyEvents(sid, k) = {} THEN strats[sid].kind # "free"
       ELSE trace'[Last(StrategyEvents(sid, k))].ev = "new_strategy"

\* the strategy dereferenced at position k: the one rendered, or for a heartbeat
\* the sender's currentStrategy (a heartbeat precedes the commands of its tick)
Dereferenced(k) ==
    IF trace'[k].ev = "apply_strategy" THEN trace'[k].arg
    ELSE IF objs[trace'[k].obj].mode = STATE_CONNECTED
         THEN objs[trace'[k].obj].currentStrategy
         ELSE 0

Deletions(sid) ==
    {n \in DOMAIN trace' : trace'[n].ev = "delete_strategy" /\ trace'[n].obj = sid}

Creations(sid) ==
    {n \in DOMAIN trace' : trace'[n].ev = "new_strategy" /\ trace'[n].obj = sid}

C37_OneLiveStrategy ==
    [][/\ (booted' /\ CurrentMode' = STATE_CONNECTED)
              => LiveIn(strats') = {objs'[currentState'].currentStrategy}
       /\ \A k \in DOMAIN trace' :
             (/\ trace'[k].ev \in {"send_heartbeat", "apply_strategy"}
              /\ ~DeadAt(trace'[k].obj, k))
                 => StrategyLiveAt(Dereferenced(k), k)
       /\ \A k \in DOMAIN trace' : trace'[k].ev # "double_free_strategy"
       /\ booted' =>
             \A sid \in 1..MaxStrats :
                LET before == IF sid \in LiveIn(strats) THEN 1 ELSE 0
                    after  == IF sid \in LiveIn(strats') THEN 1 ELSE 0
                IN  before + Cardinality(Creations(sid))
                        = Cardinality(Deletions(sid)) + after]_vars

\* a set-mood command has just replaced the strategy of the Connected state by a
\* Party strategy: the old one was deleted, the new one created
C37_Witness ==
    /\ booted /\ CurrentMode = STATE_CONNECTED
    /\ strats[objs[currentState].currentStrategy].kind = "Party"
    /\ \E c \in Events("command") : \E d \in Events("delete_strategy") :
       \E n \in Events("new_strategy") : c < d /\ d < n

\* a heartbeat and a rendering in a tick that began with a replaced strategy
C37_WitnessDereference ==
    /\ booted /\ CurrentMode = STATE_CONNECTED
    /\ strats[objs[currentState].currentStrategy].kind = "Solid"
    /\ Events("send_heartbeat") # {} /\ Events("apply_strategy") # {}
    /\ Events("new_strategy") = {}

(* ------------------------------------------------------------------------ *)
(* C38: if saveCredentials fails at the commit (lengths within bounds,       *)
(* EEPROM.commit() false), a loadCredentials() that follows in the same      *)
(* power cycle returns what it returned before the save, the old             *)
(* credentials or absence, and never the credentials of the failed save.     *)
(* ------------------------------------------------------------------------ *)
CommitFailed ==
    /\ Len(trace') = 1 /\ trace'[1].ev = "save" /\ trace'[1].arg = 0
    /\ Len(trace'[1].data[1]) <= MAX_SSID
    /\ Len(trace'[1].data[2]) <= MAX_PASS

C38_FailedSaveLeavesLoadResult ==
    [][CommitFailed =>
          loadCredentials(eeprom', <<>>, <<>>) = loadCredentials(eeprom, <<>>, <<>>)]_vars

\* What holds instead: until the restart, loadCredentials() returns the
\* credentials of the failed save; the flash keeps what it held.
C38_FailedSaveIsLoadedFromBuffer ==
    [][CommitFailed =>
          /\ loadCredentials(eeprom', <<>>, <<>>) =
                [ret |-> TRUE, ssid |-> trace'[1].data[1], password |-> trace'[1].data[2]]
          /\ eeprom'.flash = eeprom.flash]_vars

(* ------------------------------------------------------------------------ *)
(* C39: every entry into Connected, from Searching, from the error rollback  *)
(* of Updating or from the timeout of Updating, starts with the default      *)
(* breathing strategy in the Connected color: the installed state was built  *)
(* in the same operation together with a new Calm strategy, and when it is   *)
(* still the current state at the end of the operation its strategy is the   *)
(* Calm strategy in Colors::CONNECTED, whatever strategy was active before   *)
(* Updating began.                                                           *)
(* ------------------------------------------------------------------------ *)
ConnectedEntries == {i \in Events("install") : trace[i].arg = STATE_CONNECTED}

DefaultStrategy ==
    [kind |-> "Calm", c1 |-> ColorCONNECTED, c2 |-> ColorCONNECTED, c3 |-> ColorCONNECTED]

BuiltWithDefault(i) ==
    \E n \in Events("new") :
        /\ n + 1 < i
        /\ trace[n].obj = trace[i].obj /\ trace[n].arg = STATE_CONNECTED
        /\ trace[n + 1].ev = "new_strategy"
        /\ trace[n + 1].data = NameOf("Calm")
        /\ \A k \in (n + 1)..(i - 1) : trace[k].ev # "new" \/ trace[k].obj # trace[i].obj

StillCurrent(i) ==
    /\ booted /\ currentState = trace[i].obj
    /\ \A k \in Events("install") : k <= i

C39_ConnectedStartsWithDefault ==
    \A i \in ConnectedEntries :
        /\ BuiltWithDefault(i)
        /\ StillCurrent(i) =>
              /\ objs[currentState].mode = STATE_CONNECTED
              /\ objs[currentState].currentStrategy \in 1..MaxStrats
              /\ strats[objs[currentState].currentStrategy] = DefaultStrategy

\* Connected entered by the error rollback of Updating
C39_Witness ==
    /\ \E i \in ConnectedEntries : StillCurrent(i)
    /\ Events("ota_error") # {}

\* Connected entered from Searching
C39_WitnessFromSearching ==
    /\ \E i \in ConnectedEntries : StillCurrent(i)
    /\ Events("attempt_connection") # {}

\* Connected entered by the timeout of a live Updating state
C39_WitnessTimeout ==
    /\ \E i \in ConnectedEntries : StillCurrent(i)
    /\ Events("update_timeout") # {} /\ Events("ota_error") = {}

(* ------------------------------------------------------------------------ *)
(* C40: the global LED brightness is changed only by begin() and by a        *)
(* set-brightness command handled in Connected.  In every step of a running  *)
(* device the brightness afterwards is the value of the last set-brightness  *)
(* handled in the step, each handled by the Connected state while Connected  *)
(* is the active mode, and is the brightness before the step when there was  *)
(* none: mode transitions, timeouts and all other commands leave it alone,   *)
(* so a value set in Connected stays in force in Searching, Provisioning     *)
(* and Updating.  begin() sets BRIGHTNESS_MAX.                               *)
(* ------------------------------------------------------------------------ *)
BrightnessSet == {k \in DOMAIN trace' : trace'[k].ev = "set_brightness"}

C40_BrightnessChangedOnlyBySetBrightness ==
    [][/\ \A k \in BrightnessSet :
             /\ booted
             /\ trace'[k].obj = currentState
             /\ objs[currentState].mode = STATE_CONNECTED
             /\ ActiveModeAt(k) = STATE_CONNECTED
       /\ (booted /\ booted') =>
             ledBrightness' = IF BrightnessSet = {} THEN ledBrightness
                              ELSE trace'[Last(BrightnessSet)].arg
       /\ (~booted /\ booted') => ledBrightness' = BRIGHTNESS_MAX]_vars

\* a brightness set in Connected is in force in Updating
C40_Witness ==
    /\ booted /\ CurrentMode = STATE_UPDATING
    /\ ledBrightness = 50

C40_WitnessSearching ==
    /\ booted /\ CurrentMode = STATE_SEARCHING
    /\ ledBrightness = 50

C40_WitnessProvisioning ==
    /\ booted /\ CurrentMode = STATE_PROVISIONING
    /\ ledBrightness = 50

====
